---- MODULE Spec2Model ----
(***************************************************************************)
(* A model of the ledger and intent-dispatch core of the personal          *)
(* finance / nutrition assistant backend: the transactions and meals       *)
(* tables of VirtualAssistantDB, the budget and calories routers that sit  *)
(* on top of them, the free-text tools and the chat router's dispatch.     *)
(*                                                                         *)
(* Time.  An instant is an integer: day * SlotsPerDay + slot, where day    *)
(* counts calendar days from 1 January 2023.  Within a day the slots     *)
(* are ordered; slot 0 is 00:00:00, slot SlotsPerDay - 2 is 23:59:59 and   *)
(* the last slot stands for the instants after 23:59:59 and before         *)
(* midnight (23:59:59.5).                                                  *)
(*                                                                         *)
(* Money and calories are integers; floating point rounding is not         *)
(* modelled.  Strings that the code compares as a whole are TLA+ strings;  *)
(* food names and units, which the code lower-cases, searches and slices,  *)
(* are sequences of words.                                                 *)
(***************************************************************************)
EXTENDS Integers, Sequences, FiniteSets, TLC

VARIABLES
    now,            \* datetime.now(): the server clock, an instant
    transactions,   \* table transactions: a set of rows
    nextTxId,       \* the SERIAL sequence of transactions.id
    meals,          \* table meals: a set of rows
    nextMealId,     \* the SERIAL sequence of meals.id
    last,           \* the request handled last, with what it answered
    chat,           \* the chat message handled last: intents, dispatches, response
    chat_messages,  \* table chat_messages: the rows in the order of their ids
    endpoint,       \* what POST /chat/ answered last
    pending         \* the requests of POST /entries/add in flight, each with its position

vars == <<now, transactions, nextTxId, meals, nextMealId, last, chat, chat_messages, endpoint, pending>>

---------------------------------------------------------------------------
(* Bounds of the model *)

\* slots of a day (see above); at least 3
SlotsPerDay == 3
\* the clock advances at most this many slots
MaxTicks == 3
\* rows ever inserted into one table (the SERIAL sequence stops here)
MaxRows == 2
\* length of the intent array the completion service may return
MaxIntents == 3
MaxMessages == 4

\* the years the calendar covers; day 0 is 1 January 2023
Years == 2023 .. 2025

Users == {"u1", "u2"}
\* request.get("user_id"): absent, or whatever the body carries
NoUser == "absent"
BodyUsers == Users \cup {NoUser}

---------------------------------------------------------------------------
(* The calendar: datetime, calendar.monthrange, datetime.weekday *)

IsLeap(y) == (y % 4 = 0 /\ y % 100 # 0) \/ y % 400 = 0

monthrange(y, m) ==
    IF m \in {4, 6, 9, 11} THEN 30
    ELSE IF m = 2 THEN (IF IsLeap(y) THEN 29 ELSE 28)
    ELSE 31

DaysInYear(y) == IF IsLeap(y) THEN 366 ELSE 365

RECURSIVE DaysBeforeYear(_)
DaysBeforeYear(y) ==
    IF y <= 2023 THEN 0 ELSE DaysBeforeYear(y - 1) + DaysInYear(y - 1)

RECURSIVE DaysBeforeMonth(_, _)
DaysBeforeMonth(y, m) ==
    IF m <= 1 THEN 0 ELSE DaysBeforeMonth(y, m - 1) + monthrange(y, m - 1)

\* the day number of the date y-m-d
DayNumber(y, m, d) == DaysBeforeYear(y) + DaysBeforeMonth(y, m) + (d - 1)

YearOf(day) ==
    CHOOSE y \in Years : DayNumber(y, 1, 1) <= day /\ day < DayNumber(y, 1, 1) + DaysInYear(y)

MonthOf(day) ==
    LET y == YearOf(day)
    IN  CHOOSE m \in 1..12 :
            DayNumber(y, m, 1) <= day /\ day < DayNumber(y, m, 1) + monthrange(y, m)

DayOf(day) == day - DayNumber(YearOf(day), MonthOf(day), 1) + 1

\* datetime.weekday(): 0 is Monday; 1 January 2023 was a Sunday
weekday(day) == (day + 6) % 7

\* an instant's calendar day, SQL DATE(timestamp)
DATE(t) == t \div SlotsPerDay
SlotOf(t) == t % SlotsPerDay

\* datetime(y, m, d) and datetime(y, m, d, 23, 59, 59) of a day
StartOfDay(day) == day * SlotsPerDay
EndOfDay(day) == day * SlotsPerDay + (SlotsPerDay - 2)

---------------------------------------------------------------------------
(* Period windows: the date range get_transactions_by_period and           *)
(* get_raw_transactions compute from the period keyword                    *)

Periods == {"daily", "weekly", "monthly", "yearly", "specific_month"}

\* the month argument: absent, a 1-2 digit number ("03"), "YYYY-MM", or
\* a string that is neither
NoMonth == [kind |-> "none", y |-> 0, m |-> 0]
BadMonth == [kind |-> "bad", y |-> 0, m |-> 0]
MonthNum(m) == [kind |-> "num", y |-> 0, m |-> m]
MonthYM(y, m) == [kind |-> "ym", y |-> y, m |-> m]

\* the date argument of get_raw_transactions: absent, "YYYY-MM-DD" of a
\* real day, or a string datetime() rejects
NoDate == [kind |-> "none", day |-> 0]
BadDate == [kind |-> "bad", day |-> 0]
DateYMD(day) == [kind |-> "ymd", day |-> day]

Window(start, end) == [start |-> start, end |-> end]

\* first day 00:00:00 to last day 23:59:59 of month m of year y
MonthWindow(y, m) ==
    Window(StartOfDay(DayNumber(y, m, 1)), EndOfDay(DayNumber(y, m, monthrange(y, m))))

\* the monthly branch: a month that parses to a real month of a covered
\* year, else (absent, or the except branch) the current month
MonthlyWindow(month, t) ==
    LET today == DATE(t)
        year == IF month.kind = "num" THEN YearOf(today) ELSE month.y
        parses == /\ month.kind \in {"num", "ym"}
                  /\ month.m \in 1..12
                  /\ year \in Years
    IN  IF parses THEN MonthWindow(year, month.m)
        ELSE MonthWindow(YearOf(today), MonthOf(today))

\* the weekly window as the seven days that end today
PeriodWindow_seven_days(period, month, t) ==
    LET today == DATE(t)
    IN  IF period = "weekly" THEN Window(StartOfDay(today - 6), EndOfDay(today))
        ELSE MonthlyWindow(month, t)

PeriodWindow(period, month, t) ==
    LET today == DATE(t)
    IN  IF period = "daily" THEN Window(StartOfDay(today), EndOfDay(today))
        ELSE IF period = "weekly"
             THEN Window(StartOfDay(today - weekday(today)), EndOfDay(today))
        ELSE IF period = "yearly"
             THEN Window(StartOfDay(DayNumber(YearOf(today), 1, 1)),
                         EndOfDay(DayNumber(YearOf(today), 12, 31)))
        ELSE MonthlyWindow(month, t)

\* get_raw_transactions only: the daily window of an explicit date
RawPeriodWindow(period, month, date, t) ==
    IF period = "daily" /\ date.kind = "ymd"
    THEN Window(StartOfDay(date.day), EndOfDay(date.day))
    ELSE PeriodWindow(period, month, t)

---------------------------------------------------------------------------
(* Table transactions and its queries (VirtualAssistantDB) *)

RECURSIVE SumAmounts(_)
SumAmounts(rows) ==
    IF rows = {} THEN 0
    ELSE LET r == CHOOSE x \in rows : TRUE
         IN  r.amount + SumAmounts(rows \ {r})

\* WHERE user_id = $1 AND timestamp BETWEEN $2 AND $3
TxBetween(table, user_id, w) ==
    {r \in table : r.user_id = user_id /\ w.start <= r.timestamp /\ r.timestamp <= w.end}

\* WHERE user_id = $1 AND DATE(timestamp) BETWEEN DATE($2) AND DATE($3)
TxDateBetween(table, user_id, w) ==
    {r \in table : /\ r.user_id = user_id
                   /\ DATE(w.start) <= DATE(r.timestamp)
                   /\ DATE(r.timestamp) <= DATE(w.end)}

\* SELECT category, SUM(amount) ... GROUP BY category, as a dictionary
GroupByCategory(rows) ==
    [c \in {r.category : r \in rows} |-> SumAmounts({r \in rows : r.category = c})]

\* the aggregate without its second, date-only query
get_transactions_by_period_exact(table, user_id, period, month, t) ==
    GroupByCategory(TxBetween(table, user_id, PeriodWindow(period, month, t)))

get_transactions_by_period(table, user_id, period, month, t) ==
    LET w == PeriodWindow(period, month, t)
        category_totals == GroupByCategory(TxBetween(table, user_id, w))
    IN  IF DOMAIN category_totals = {}
        THEN GroupByCategory(TxDateBetween(table, user_id, w))
        ELSE category_totals

get_raw_transactions(table, user_id, period, month, date, t) ==
    LET w == RawPeriodWindow(period, month, date, t)
        rows == TxBetween(table, user_id, w)
    IN  IF rows = {} THEN TxDateBetween(table, user_id, w) ELSE rows

\* sum(daily_summary.values())
RECURSIVE SumValues(_)
SumValues(d) ==
    IF DOMAIN d = {} THEN 0
    ELSE LET k == CHOOSE x \in DOMAIN d : TRUE
         IN  d[k] + SumValues([x \in DOMAIN d \ {k} |-> d[x]])

TxRow(id, user_id, amount, category, description, ts) ==
    [id |-> id, user_id |-> user_id, amount |-> amount, category |-> category,
     description |-> description, timestamp |-> ts]

\* INSERT INTO transactions ... RETURNING id; timestamp None is datetime.now()
NoTime == 0 - 1
save_transaction(table, id, user_id, amount, category, description, timestamp, t) ==
    table \cup {TxRow(id, user_id, amount, category, description,
                      IF timestamp = NoTime THEN t ELSE timestamp)}

\* a transaction_id that int() rejects, such as "abc"
MalformedId == 0 - 2

\* the validation of update_transaction and delete_transaction: a falsy
\* transaction_id, or one that int() rejects, raises ValueError
invalid_transaction_id(transaction_id) == transaction_id = 0 \/ transaction_id = MalformedId

\* UPDATE transactions SET amount, category, description
\* WHERE id = $4 AND user_id = $5; "UPDATE 0" is False
update_transaction(table, transaction_id, user_id, amount, category, description) ==
    LET hit == {r \in table : r.id = transaction_id /\ r.user_id = user_id}
    IN  IF invalid_transaction_id(transaction_id)
        THEN [ok |-> FALSE, raised |-> TRUE, table |-> table]
        ELSE [ok |-> hit # {}, raised |-> FALSE,
              table |-> (table \ hit) \cup
                        {[r EXCEPT !.amount = amount, !.category = category,
                                   !.description = description] : r \in hit}]

\* DELETE FROM transactions WHERE id = $1 AND user_id = $2; "DELETE 0" is False
\* a delete that matches the id alone
delete_transaction_any_user(table, transaction_id, user_id) ==
    LET hit == {r \in table : r.id = transaction_id}
    IN  IF invalid_transaction_id(transaction_id)
        THEN [ok |-> FALSE, raised |-> TRUE, table |-> table]
        ELSE [ok |-> hit # {}, raised |-> FALSE, table |-> table \ hit]

delete_transaction(table, transaction_id, user_id) ==
    LET hit == {r \in table : r.id = transaction_id /\ r.user_id = user_id}
    IN  IF invalid_transaction_id(transaction_id)
        THEN [ok |-> FALSE, raised |-> TRUE, table |-> table]
        ELSE [ok |-> hit # {}, raised |-> FALSE, table |-> table \ hit]

---------------------------------------------------------------------------
(* What the request handled last leaves behind for the properties to read *)
(* (last for the ledger endpoints, chat for the chat endpoint; the one     *)
(* that is not of the last request is blank):                              *)
(* op       the endpoint                                                   *)
(* caller   the authenticated user (current_user["id"], token["uid"])      *)
(* user_id  the user_id the handler handed to the database layer           *)
(* id       the entry id of the request, or the id assigned; 0 if none     *)
(* status   the HTTP status of the answer                                  *)
(* ok       what the database operation returned (update, delete)          *)
(* raised   the database operation raised instead of returning             *)
(* dup      the answer's "duplicate" flag                                  *)
(* seen     the ids of the rows the answer was computed from               *)
(* total    the answer's total_today / total                               *)
(* supplied the fields an update request carried                           *)
(* entry    the body of a request to add an entry, <<>> if none            *)

Answer(op, caller, user_id, id, status, ok, dup, seen, total) ==
    [op |-> op, caller |-> caller, user_id |-> user_id, id |-> id, status |-> status,
     ok |-> ok, raised |-> FALSE, dup |-> dup, seen |-> seen, total |-> total,
     supplied |-> {}, entry |-> <<>>]

NoAnswer == Answer("none", NoUser, NoUser, 0, 0, FALSE, FALSE, {}, 0)

\* what a handled chat message leaves behind: the caller, the branch taken,
\* the intent array, the handlers called in order, the response's success,
\* the body's user_id, whether the message logs both an expense and a food,
\* and the response's text and payload sub-fields
NoChat == [caller |-> NoUser, multi |-> FALSE, intents |-> <<>>, dispatched |-> <<>>,
           success |-> FALSE, body_user |-> NoUser, logs |-> FALSE, response |-> <<>>,
           outputs |-> <<>>,
           expense_info |-> [present |-> FALSE, actions_logged |-> 0, total |-> 0],
           calorie_info |-> [present |-> FALSE, actions_logged |-> 0, total |-> 0]]

Ids(rows) == {r.id : r \in rows}

---------------------------------------------------------------------------
(* The clock *)

\* a behaviour starts at 23:59:59 of Sunday 31 December 2023: a week, a
\* month and a year end at the next midnight, and the year entered is a
\* leap year
StartInstants == {EndOfDay(DayNumber(2023, 12, 31))}

Tick ==
    /\ \E s \in StartInstants : s <= now /\ now < s + MaxTicks
    /\ now' = now + 1
    /\ UNCHANGED <<transactions, nextTxId, meals, nextMealId, last, chat, chat_messages, endpoint, pending>>

---------------------------------------------------------------------------
(* routers/budget.py *)

\* the closed category set of the expense schema
Categories == {"groceries", "dining", "transport", "entertainment", "shopping",
               "housing", "savings", "investment", "other"}

\* request inputs
ExpenseInputs == {[amount |-> 10, category |-> "dining", description |-> "lunch"],
                  [amount |-> 25, category |-> "pets", description |-> "vet"]}
UpdateInputs == {[amount |-> 25, category |-> "other", description |-> "taxi"]}
ValidPeriods == {"daily", "weekly", "monthly", "yearly"}

DailySummary(table, user_id, t) == get_transactions_by_period(table, user_id, "daily", NoMonth, t)

\* POST /track
track_expense(caller, amount, category, description) ==
    /\ nextTxId <= MaxRows
    /\ transactions' = save_transaction(transactions, nextTxId, caller, amount, category,
                                        description, NoTime, now)
    /\ nextTxId' = nextTxId + 1
    /\ last' = Answer("track_expense", caller, caller, nextTxId, 200, TRUE, FALSE, {}, 0)
    /\ chat' = NoChat
    /\ UNCHANGED <<now, chat_messages, endpoint, pending, meals, nextMealId>>

\* POST /transactions/add: the call's argument timestamp=timestamp names a
\* variable the function never binds; evaluating it raises NameError before
\* save_transaction is entered, and the handler answers 500
add_transaction(caller, amount, category, description) ==
    /\ last' = Answer("add_transaction", caller, caller, 0, 500, FALSE, FALSE, {}, 0)
    /\ chat' = NoChat
    /\ UNCHANGED <<now, chat_messages, endpoint, pending, transactions, nextTxId, meals, nextMealId>>

\* GET /transactions
get_transactions(caller, period, month) ==
    /\ LET rows == get_raw_transactions(transactions, caller, period, month, NoDate, now)
       IN  last' = IF period \in ValidPeriods
                   THEN Answer("get_transactions", caller, caller, 0, 200, TRUE, FALSE,
                               Ids(rows), SumAmounts(rows))
                   ELSE Answer("get_transactions", caller, caller, 0, 500, FALSE, FALSE, {}, 0)
    /\ chat' = NoChat
    /\ UNCHANGED <<now, chat_messages, endpoint, pending, transactions, nextTxId, meals, nextMealId>>

\* request.get("user_id", current_user["id"])
BodyUserOr(body_user, caller) == IF body_user = NoUser THEN caller ELSE body_user

\* POST /transactions
post_transactions(caller, body_user, period, month, date) ==
    /\ LET user_id == BodyUserOr(body_user, caller)
           rows == get_raw_transactions(transactions, user_id, period, month, date, now)
       IN  last' = IF period \in ValidPeriods
                   THEN Answer("post_transactions", caller, user_id, 0, 200, TRUE, FALSE,
                               Ids(rows), SumAmounts(rows))
                   ELSE Answer("post_transactions", caller, user_id, 0, 500, FALSE, FALSE, {}, 0)
    /\ chat' = NoChat
    /\ UNCHANGED <<now, chat_messages, endpoint, pending, transactions, nextTxId, meals, nextMealId>>

\* POST /transactions/update: all of amount, category and description are
\* required, and a falsy transaction_id is answered 400 before the database
\* layer is called.  A ValueError of the database layer is answered 400.
\* The 404 raised for a miss is raised inside the try whose except Exception
\* turns it into a 500.
update_transaction_endpoint(caller, transaction_id, amount, category, description) ==
    /\ LET res == update_transaction(transactions, transaction_id, caller, amount,
                                     category, description)
           summary == DailySummary(res.table, caller, now)
           answer(status, ok, total) ==
               Answer("update_transaction", caller, caller, transaction_id, status, ok,
                      FALSE, {}, total)
       IN  IF transaction_id = 0
           THEN /\ last' = answer(400, FALSE, 0)
                /\ UNCHANGED transactions
           ELSE /\ transactions' = res.table
                /\ last' = IF res.raised THEN [answer(400, FALSE, 0) EXCEPT !.raised = TRUE]
                           ELSE IF res.ok THEN answer(200, TRUE, SumValues(summary))
                           ELSE answer(500, FALSE, 0)
    /\ chat' = NoChat
    /\ UNCHANGED <<now, chat_messages, endpoint, pending, nextTxId, meals, nextMealId>>

\* POST /transactions/delete: as the update, but every exception of the
\* database layer, ValueError among them, is answered 500
delete_transaction_endpoint(caller, transaction_id) ==
    /\ LET res == delete_transaction(transactions, transaction_id, caller)
           summary == DailySummary(res.table, caller, now)
           answer(status, ok, total) ==
               Answer("delete_transaction", caller, caller, transaction_id, status, ok,
                      FALSE, {}, total)
       IN  IF transaction_id = 0
           THEN /\ last' = answer(400, FALSE, 0)
                /\ UNCHANGED transactions
           ELSE /\ transactions' = res.table
                /\ last' = IF res.raised THEN [answer(500, FALSE, 0) EXCEPT !.raised = TRUE]
                           ELSE IF res.ok THEN answer(200, TRUE, SumValues(summary))
                           ELSE answer(500, FALSE, 0)
    /\ chat' = NoChat
    /\ UNCHANGED <<now, chat_messages, endpoint, pending, nextTxId, meals, nextMealId>>

\* POST /daily-total
post_daily_total(caller, body_user) ==
    /\ LET user_id == BodyUserOr(body_user, caller)
           rows == get_raw_transactions(transactions, user_id, "daily", NoMonth, NoDate, now)
       IN  last' = Answer("post_daily_total", caller, user_id, 0, 200, TRUE, FALSE,
                          Ids(rows), SumAmounts(rows))
    /\ chat' = NoChat
    /\ UNCHANGED <<now, chat_messages, endpoint, pending, transactions, nextTxId, meals, nextMealId>>

---------------------------------------------------------------------------
(* services/tools/budget_tool.py *)
(* A description is one word.  A chat message is carried by what the tool *)
(* reads from it: whether a query pattern occurs in it, and what the       *)
(* expense extraction finds in it.                                         *)

\* category_patterns: the categories whose pattern finds a match in the word
PatternHits(description) ==
    CASE description = "lunch" -> {"dining"}
      [] description = "food"  -> {"dining", "groceries"}
      [] description = "taxi"  -> {"transport"}
      [] description = "rent"  -> {"housing"}
      [] description = "supermarket"       -> {"groceries"}
      [] description = "netflix"           -> {"entertainment"}
      [] description = "amazon"            -> {"shopping"}
      [] description = "stock"             -> {"investment"}
      [] description = "saving"            -> {"savings"}
      [] description = "car insurance"     -> {"transport", "housing"}
      [] description = "phone game"        -> {"entertainment", "housing"}
      [] description = "save on groceries" -> {"groceries", "savings"}
      [] description = "online stock"      -> {"shopping", "investment"}
      [] description = "wine store"        -> {"dining", "shopping"}
      [] OTHER                 -> {}

\* the order in which categorize_expense tries the categories
CategoryOrder == <<"dining", "groceries", "transport", "entertainment", "shopping",
                   "housing", "investment", "savings">>

\* the completion service's answers to the categorisation prompt; AiRaises
\* stands for a call that raises
AiRaises == "raises"
AiReplies == {"pets", "fast food", AiRaises}

\* needle in category, for the replies above
Has(category, needle) ==
    <<category, needle>> \in {<<"fast food", "food">>, <<"car rental", "car">>,
                              <<"car rental", "rent">>, <<"utility bills", "bill">>,
                              <<"healthcare", "car">>, <<"stock market", "market">>,
                              <<"stock market", "stock">>, <<"money saved", "save">>,
                              <<"clothing", "cloth">>, <<"barber", "bar">>}

\* the label of the completion service returned as it is
ai_categorize_unvalidated(reply) == reply

\* the category of the last pattern group that matches
categorize_expense_last_hit(description, reply) ==
    IF description = "" THEN "other"
    ELSE LET hits == {i \in 1..Len(CategoryOrder) : CategoryOrder[i] \in PatternHits(description)}
         IN  IF hits # {} THEN CategoryOrder[CHOOSE i \in hits : \A j \in hits : i >= j]
             ELSE "other"

ai_categorize(reply) ==
    IF reply \in Categories THEN reply
    ELSE IF Has(reply, "food") \/ Has(reply, "restaurant") \/ Has(reply, "eat") \/ Has(reply, "bar")
         THEN "dining"
    ELSE IF Has(reply, "market") \/ Has(reply, "grocer") THEN "groceries"
    ELSE IF Has(reply, "travel") \/ Has(reply, "car") \/ Has(reply, "gas") THEN "transport"
    ELSE IF Has(reply, "movie") \/ Has(reply, "game") \/ Has(reply, "fun") THEN "entertainment"
    ELSE IF Has(reply, "cloth") \/ Has(reply, "buy") \/ Has(reply, "purchase") THEN "shopping"
    ELSE IF Has(reply, "home") \/ Has(reply, "rent") \/ Has(reply, "bill") THEN "housing"
    ELSE IF Has(reply, "invest") \/ Has(reply, "stock") THEN "investment"
    ELSE IF Has(reply, "save") THEN "savings"
    ELSE "other"

categorize_expense(description, reply) ==
    IF description = "" THEN "other"
    ELSE LET hits == {i \in 1..Len(CategoryOrder) : CategoryOrder[i] \in PatternHits(description)}
         IN  IF hits # {} THEN CategoryOrder[CHOOSE i \in hits : \A j \in hits : i <= j]
             ELSE IF reply = AiRaises THEN "other"
             ELSE ai_categorize(reply)

ExpenseAction(amount, category, description) ==
    [amount |-> amount, category |-> category, description |-> description]

\* what the extraction finds in a message: simple is TRUE when one of the
\* simple patterns matches, and then items holds its amount and description;
\* otherwise items is the array the completion service returned, where
\* category "" is a missing or empty category
ExpenseParse(simple, items) == [simple |-> simple, items |-> items]

extract_expense_actions(parse, reply) ==
    IF parse.simple
    THEN <<ExpenseAction(parse.items[1].amount,
                         categorize_expense(parse.items[1].description, reply),
                         parse.items[1].description)>>
    ELSE [i \in 1..Len(parse.items) |->
            IF parse.items[i].category = ""
            THEN [parse.items[i] EXCEPT
                    !.category = categorize_expense(parse.items[i].description, reply)]
            ELSE parse.items[i]]

\* the loop of handle_logging: one save_transaction per action
RECURSIVE save_actions(_, _, _, _, _, _)
save_actions(table, id, user_id, actions, timestamp, t) ==
    IF actions = <<>> THEN table
    ELSE save_actions(save_transaction(table, id, user_id, Head(actions).amount,
                                       Head(actions).category, Head(actions).description,
                                       timestamp, t),
                      id + 1, user_id, Tail(actions), timestamp, t)

\* BudgetTool.handle_logging: the table afterwards and the ChatResponse
budget_handle_logging(table, id, user_id, local_time, parse, reply, t) ==
    LET actions == extract_expense_actions(parse, reply)
        saved == save_actions(table, id, user_id, actions, local_time, t)
        today == get_raw_transactions(saved, user_id, "daily", NoMonth, DateYMD(DATE(t)), t)
    IN  IF actions = <<>>
        THEN [table |-> table, logged |-> 0, success |-> FALSE, total |-> 0, seen |-> {}]
        ELSE [table |-> saved, logged |-> Len(actions), success |-> TRUE,
              total |-> SumAmounts(today), seen |-> Ids(today)]

---------------------------------------------------------------------------
(* Strings: a string is a sequence of tokens, a token being a word or the *)
(* blank " "; the string operations of the code act on the sequence.      *)

lower_token(w) ==
    CASE w = "Banana" -> "banana"
      [] w = "Cup"    -> "cup"
      [] OTHER        -> w

lower(str) == [i \in 1..Len(str) |-> lower_token(str[i])]

\* a in b
IsIn(a, b) == \E i \in 0..(Len(b) - Len(a)) : \A j \in 1..Len(a) : b[i + j] = a[j]

startswith(str, prefix) ==
    /\ Len(prefix) <= Len(str)
    /\ \A j \in 1..Len(prefix) : str[j] = prefix[j]

RECURSIVE strip(_)
strip(str) ==
    IF str = <<>> THEN str
    ELSE IF Head(str) = " " THEN strip(Tail(str))
    ELSE IF str[Len(str)] = " " THEN strip(SubSeq(str, 1, Len(str) - 1))
    ELSE str

\* the unit prefix removal of add_calorie_entry and update_calorie_entry
strip_unit(food_item, unit) ==
    IF unit # <<>> /\ unit # <<"serving">> /\ startswith(lower(food_item), lower(unit))
    THEN strip(SubSeq(food_item, Len(unit) + 1, Len(food_item)))
    ELSE food_item

---------------------------------------------------------------------------
(* Table meals and its queries *)

\* SQL NULL, Python None
Null == 0 - 1

MealRow(id, user_id, food_item, calories, carbs, protein, fat, quantity, unit, ts) ==
    [id |-> id, user_id |-> user_id, food_item |-> food_item, calories |-> calories,
     carbs |-> carbs, protein |-> protein, fat |-> fat, quantity |-> quantity,
     unit |-> unit, timestamp |-> ts]

FoodInfo(food_item, calories, carbs, protein, fat, quantity, unit, timestamp) ==
    [food_item |-> food_item, calories |-> calories, carbs |-> carbs, protein |-> protein,
     fat |-> fat, quantity |-> quantity, unit |-> unit, timestamp |-> timestamp]

\* the INSERT fails when user_id is NULL (the column is NOT NULL) or names
\* no user (the foreign key); save_meal raises then
save_meal_raises(user_id) == user_id \notin Users

save_meal(table, id, user_id, food_info, t) ==
    table \cup {MealRow(id, user_id, food_info.food_item,
                        IF food_info.calories = Null THEN 0 ELSE food_info.calories,
                        food_info.carbs, food_info.protein, food_info.fat,
                        IF food_info.quantity = Null THEN 1 ELSE food_info.quantity,
                        IF food_info.unit = <<>> THEN <<"serving">> ELSE food_info.unit,
                        IF food_info.timestamp = NoTime THEN t ELSE food_info.timestamp)}

get_raw_calorie_entries(table, user_id, period, month, t) ==
    LET w == PeriodWindow(period, month, t)
    IN  {r \in table : /\ r.user_id = user_id
                       /\ DATE(w.start) <= DATE(r.timestamp)
                       /\ DATE(r.timestamp) <= DATE(w.end)}

RECURSIVE SumCalories(_)
SumCalories(rows) ==
    IF rows = {} THEN 0
    ELSE LET r == CHOOSE x \in rows : TRUE
         IN  r.calories + SumCalories(rows \ {r})

\* the totalCalories of the summary
get_calories_by_period(table, user_id, period, month, t) ==
    SumCalories(get_raw_calorie_entries(table, user_id, period, month, t))

\* the fields of a meal an update can carry
MealFields == {"food_item", "calories", "carbs", "protein", "fat", "quantity", "unit"}

\* VirtualAssistantDB.update_calorie_entry; fields is the set of keys present
\* in food_info.  With no key present the statement reads
\* "UPDATE meals SET  WHERE ...", which the database rejects: the call raises.
\* A NULL for calories violates NOT NULL: the call raises.
update_calorie_entry(table, user_id, entry_id, food_info, fields) ==
    LET hit == {r \in table : r.id = entry_id /\ r.user_id = user_id}
        new(r) == [f \in DOMAIN r |-> IF f \in fields THEN food_info[f] ELSE r[f]]
        bad == \/ fields = {}
               \/ "calories" \in fields /\ food_info.calories = Null
    IN  IF hit = {} THEN [ok |-> FALSE, raised |-> FALSE, table |-> table]
        ELSE IF bad THEN [ok |-> FALSE, raised |-> TRUE, table |-> table]
        ELSE [ok |-> TRUE, raised |-> FALSE,
              table |-> (table \ hit) \cup {new(r) : r \in hit}]

delete_calorie_entry(table, user_id, entry_id) ==
    LET hit == {r \in table : r.id = entry_id /\ r.user_id = user_id}
    IN  [ok |-> hit # {}, table |-> table \ hit]

---------------------------------------------------------------------------
(* services/tools/calorie_tool.py *)

\* one element of what extract_food_actions returns: the food the completion
\* service named, with the nutrition get_food_macros found for it
FoodAction(food_item, quantity, unit, calories, carbs, protein, fat) ==
    [food_item |-> food_item, quantity |-> quantity, unit |-> unit, calories |-> calories,
     carbs |-> carbs, protein |-> protein, fat |-> fat]

\* units for which the nutrition is already that of the whole quantity
WholeQuantityUnits == {<<"grams">>, <<"gram">>, <<"g">>, <<"piece">>, <<"pieces">>}

\* the food_info handle_logging saves for one action
logged_food_info(action, timestamp) ==
    LET food == lower(action.food_item)
        slice == IsIn(<<"pizza">>, food) /\ (IsIn(<<"slice">>, food) \/ lower(action.unit) = <<"slice">>)
        per(x) == IF slice THEN x \div 8 ELSE x
        unit == IF slice THEN <<"slice">> ELSE action.unit
        times == IF lower(unit) \in WholeQuantityUnits THEN 1 ELSE action.quantity
    IN  FoodInfo(action.food_item, per(action.calories) * times, per(action.carbs) * times,
                 per(action.protein) * times, per(action.fat) * times, action.quantity,
                 unit, timestamp)

RECURSIVE save_meals(_, _, _, _, _, _)
save_meals(table, id, user_id, actions, timestamp, t) ==
    IF actions = <<>> THEN table
    ELSE save_meals(save_meal(table, id, user_id, logged_food_info(Head(actions), timestamp), t),
                    id + 1, user_id, Tail(actions), timestamp, t)

RECURSIVE SumLogged(_)
SumLogged(actions) ==
    IF actions = <<>> THEN 0
    ELSE logged_food_info(Head(actions), NoTime).calories + SumLogged(Tail(actions))

\* CalorieTool.handle_logging: the table afterwards and the ChatResponse.
\* The first save_meal that raises ends the loop; every save of one request
\* is for the same user_id, so either all are saved or the first one raises.
calorie_handle_logging(table, id, user_id, local_time, actions, t) ==
    IF actions = <<>> \/ save_meal_raises(user_id)
    THEN [table |-> table, logged |-> 0, success |-> FALSE, total |-> 0]
    ELSE [table |-> save_meals(table, id, user_id, actions, local_time, t),
          logged |-> Len(actions), success |-> TRUE, total |-> SumLogged(actions)]

---------------------------------------------------------------------------
(* routers/calories.py *)

\* request inputs: the bodies of POST /entries/add
Banana == FoodInfo(<<"banana">>, 105, 27, 1, 0, 1, <<"serving">>, NoTime)
BananaSplit == FoodInfo(<<"Banana", " ", "split">>, 110, Null, Null, Null, 1, <<"serving">>, NoTime)
Apple == FoodInfo(<<"apple">>, 300, Null, Null, Null, 1, <<"serving">>, NoTime)
CupRice == FoodInfo(<<"Cup", " ", "rice">>, 200, 45, 4, 0, 2, <<"cup">>, NoTime)
CalorieEntries == {Banana, BananaSplit, Apple, CupRice}

\* what the completion service finds in the messages of POST /log
FoodParses == {<<>>,
               <<FoodAction(<<"banana">>, 1, <<"piece">>, 105, 27, 1, 0)>>,
               <<FoodAction(<<"apple">>, 2, <<"serving">>, 150, 40, 1, 0)>>}

\* the timestamps a client sends at server time t: none, or its own reading
\* of the clock, which is of the same day
LocalTimes(t) == {NoTime, StartOfDay(DATE(t))}

\* the entry is similar to a recent entry (computed, then not consulted)
similar_food(entry, recent_entry) ==
    \/ lower(entry.food_item) = lower(recent_entry.food_item)
    \/ IsIn(lower(entry.food_item), lower(recent_entry.food_item))
    \/ IsIn(lower(recent_entry.food_item), lower(entry.food_item))

Abs(x) == IF x < 0 THEN 0 - x ELSE x

similar_calories(entry, recent_entry) == Abs(entry.calories - recent_entry.calories) < 10

\* POST /log
log_calories(caller, local_time, actions) ==
    /\ nextMealId + Len(actions) <= MaxRows + 1
    /\ LET res == calorie_handle_logging(meals, nextMealId, caller, local_time, actions, now)
       IN  /\ meals' = res.table
           /\ nextMealId' = nextMealId + res.logged
           /\ last' = Answer("log_calories", caller, caller, IF res.success THEN nextMealId ELSE 0,
                             200, res.success, FALSE, {}, res.total)
    /\ chat' = NoChat
    /\ UNCHANGED <<now, chat_messages, endpoint, pending, transactions, nextTxId>>

\* POST /entries/add: the loop over the recent entries answers "duplicate"
\* in its first iteration, whatever similar_food and similar_calories are
add_calorie_entry(caller, entry, timestamp) ==
    /\ nextMealId <= MaxRows
    /\ LET recent_entries == get_raw_calorie_entries(meals, caller, "daily", NoMonth, now)
           food_info == [entry EXCEPT !.food_item = strip_unit(entry.food_item, entry.unit),
                                      !.timestamp = timestamp]
           saved == save_meal(meals, nextMealId, caller, food_info, now)
           answer(id, dup, table) ==
               [Answer("add_calorie_entry", caller, caller, id, 200, TRUE, dup, {},
                       get_calories_by_period(table, caller, "daily", NoMonth, now))
                EXCEPT !.entry = entry]
       IN  IF recent_entries # {}
           THEN /\ last' = answer(0, TRUE, meals)
                /\ UNCHANGED <<meals, nextMealId>>
           ELSE /\ meals' = saved
                /\ nextMealId' = nextMealId + 1
                /\ last' = answer(nextMealId, FALSE, saved)
    /\ chat' = NoChat
    /\ UNCHANGED <<now, chat_messages, endpoint, pending, transactions, nextTxId>>

\* GET /entries
get_calorie_entries(caller, period, month) ==
    /\ LET rows == get_raw_calorie_entries(meals, caller, period, month, now)
       IN  last' = IF period \in ValidPeriods
                   THEN Answer("get_calorie_entries", caller, caller, 0, 200, TRUE, FALSE,
                               Ids(rows), SumCalories(rows))
                   ELSE Answer("get_calorie_entries", caller, caller, 0, 500, FALSE, FALSE, {}, 0)
    /\ chat' = NoChat
    /\ UNCHANGED <<now, chat_messages, endpoint, pending, transactions, nextTxId, meals, nextMealId>>

\* POST /entries
post_calorie_entries(caller, body_user, period, month) ==
    /\ LET user_id == BodyUserOr(body_user, caller)
           rows == get_raw_calorie_entries(meals, user_id, period, month, now)
       IN  last' = IF period \in ValidPeriods
                   THEN Answer("post_calorie_entries", caller, user_id, 0, 200, TRUE, FALSE,
                               Ids(rows), SumCalories(rows))
                   ELSE Answer("post_calorie_entries", caller, user_id, 0, 500, FALSE, FALSE, {}, 0)
    /\ chat' = NoChat
    /\ UNCHANGED <<now, chat_messages, endpoint, pending, transactions, nextTxId, meals, nextMealId>>

\* the bodies of POST /entries/update: the values, and which of them the
\* request carries
Patch == FoodInfo(<<"apple">>, 300, 5, 6, 7, 2, <<"cup">>, NoTime)
SuppliedSets == {{}, {"food_item", "calories"}, MealFields}

\* request.get(field) and request.get(field, default)
RequestGet(patch, supplied, field, default) ==
    IF field \in supplied THEN patch[field] ELSE default

\* POST /entries/update: every key is handed to the database layer, the
\* fields the request does not carry as None, 1.0 and "serving".  The 404
\* raised for a miss is raised inside the try whose except Exception turns
\* it into a 500.
update_calorie_entry_endpoint(caller, body_user, entry_id, patch, supplied) ==
    /\ LET user_id == BodyUserOr(body_user, caller)
           unit == RequestGet(patch, supplied, "unit", <<"serving">>)
           food_item == RequestGet(patch, supplied, "food_item", <<>>)
           calories == RequestGet(patch, supplied, "calories", Null)
           food_info == FoodInfo(strip_unit(food_item, unit), calories,
                                 RequestGet(patch, supplied, "carbs", Null),
                                 RequestGet(patch, supplied, "protein", Null),
                                 RequestGet(patch, supplied, "fat", Null),
                                 RequestGet(patch, supplied, "quantity", 1),
                                 unit, NoTime)
           res == update_calorie_entry(meals, user_id, entry_id, food_info, MealFields)
           answer(status, ok, total) ==
               [Answer("update_calorie_entry", caller, user_id, entry_id, status, ok, FALSE,
                       {}, total) EXCEPT !.supplied = supplied]
       IN  IF entry_id = 0 \/ food_item = <<>> \/ calories = Null
           THEN /\ last' = answer(400, FALSE, 0)
                /\ UNCHANGED meals
           ELSE /\ meals' = res.table
                /\ last' = IF res.ok
                           THEN answer(200, TRUE, get_calories_by_period(res.table, user_id,
                                                                         "daily", NoMonth, now))
                           ELSE answer(500, FALSE, 0)
    /\ chat' = NoChat
    /\ UNCHANGED <<now, chat_messages, endpoint, pending, transactions, nextTxId, nextMealId>>

\* VirtualAssistantDB.update_calorie_entry called with a food_info that holds
\* the keys fields and nothing else
db_update_calorie_entry(user_id, entry_id, patch, fields) ==
    /\ LET res == update_calorie_entry(meals, user_id, entry_id, patch, fields)
       IN  /\ meals' = res.table
           /\ last' = [Answer("db_update_calorie_entry", user_id, user_id, entry_id,
                              IF res.raised THEN 500 ELSE 200, res.ok, FALSE, {}, 0)
                       EXCEPT !.supplied = fields]
    /\ chat' = NoChat
    /\ UNCHANGED <<now, chat_messages, endpoint, pending, transactions, nextTxId, nextMealId>>

\* POST /entries/delete
delete_calorie_entry_endpoint(caller, body_user, entry_id) ==
    /\ LET user_id == BodyUserOr(body_user, caller)
           res == delete_calorie_entry(meals, user_id, entry_id)
           answer(status, ok, total) ==
               Answer("delete_calorie_entry", caller, user_id, entry_id, status, ok, FALSE,
                      {}, total)
       IN  IF entry_id = 0
           THEN /\ last' = answer(400, FALSE, 0)
                /\ UNCHANGED meals
           ELSE /\ meals' = res.table
                /\ last' = IF res.ok
                           THEN answer(200, TRUE, get_calories_by_period(res.table, user_id,
                                                                         "daily", NoMonth, now))
                           ELSE answer(500, FALSE, 0)
    /\ chat' = NoChat
    /\ UNCHANGED <<now, chat_messages, endpoint, pending, transactions, nextTxId, nextMealId>>

\* POST /summary, asked for a period summary
post_summary(caller, body_user, period, month) ==
    /\ period \in ValidPeriods
    /\ LET user_id == BodyUserOr(body_user, caller)
           rows == get_raw_calorie_entries(meals, user_id, period, month, now)
       IN  last' = Answer("post_summary", caller, user_id, 0, 200, TRUE, FALSE,
                          Ids(rows), get_calories_by_period(meals, user_id, period, month, now))
    /\ chat' = NoChat
    /\ UNCHANGED <<now, chat_messages, endpoint, pending, transactions, nextTxId, meals, nextMealId>>

---------------------------------------------------------------------------
(* routers/chat.py *)
(* A chat message is carried by what the completion service and the tools *)
(* read from it:                                                           *)
(* intent         the object determine_intent returned                     *)
(* intents        the tool values of the array extract_multiple_intents    *)
(*                returned, NoTool for an element without a "tool" key     *)
(* expense_query  is_query_request of the budget tool                      *)
(* expense        what extract_expense_actions finds (an ExpenseParse)     *)
(* food_query     is_query_request of the calorie tool                     *)
(* foods          what extract_food_actions returns                        *)

Tools == {"calories", "budget", "restaurant", "conversation"}
NoTool == "missing"

Intent(tool, action, query_type) == [tool |-> tool, action |-> action, query_type |-> query_type]

Message(intent, intents, expense_query, expense, food_query, foods) ==
    [intent |-> intent, intents |-> intents, expense_query |-> expense_query,
     expense |-> expense, food_query |-> food_query, foods |-> foods, outputs |-> <<>>]

\* what the completion service answers when asked for the intent or for the
\* intents: it raises, or its text is not JSON, or the text is the JSON of
\* an object, an array, a string, a number or null.  truthy is the truth
\* value Python gives the decoded value; tool is the object's "tool" (NoTool
\* without that key), items the "tool" of each element of the array.
Content(kind, truthy, tool, action, query_type, items) ==
    [kind |-> kind, truthy |-> truthy, tool |-> tool, action |-> action,
     query_type |-> query_type, items |-> items]
ServiceRaises == Content("raises", FALSE, NoTool, "", "", <<>>)
NotJson == Content("text", TRUE, NoTool, "", "", <<>>)
JsonObject(tool, action, query_type) == Content("object", TRUE, tool, action, query_type, <<>>)
JsonEmptyObject == Content("object", FALSE, NoTool, "", "", <<>>)
JsonArray(items) == Content("array", items # <<>>, NoTool, "", "", items)
JsonString == Content("string", TRUE, NoTool, "", "", <<>>)
JsonNull == Content("null", FALSE, NoTool, "", "", <<>>)

\* determine_intent: json.loads of the content, the default when the
\* service raises or the text is not JSON.  A decoded value that is not an
\* object, or an object without "tool", is returned as it is: the Intent
\* whose tool is NoTool, on which intent["tool"] raises.
determine_intent(content) ==
    IF content.kind \in {"raises", "text"} THEN Intent("conversation", "chat", "")
    ELSE IF content.kind = "object" THEN Intent(content.tool, content.action, content.query_type)
    ELSE Intent(NoTool, "", "")

\* extract_multiple_intents, as "if multiple_intents:" and the loop read it:
\* [] when the service raises or the text is not JSON, else the decoded
\* value.  A falsy value takes the single-intent branch as [] does; a truthy
\* value that is not an array is iterated (the keys of an object, the
\* characters of a string) and intent_data["tool"] raises on the first.
extract_multiple_intents(content) ==
    IF content.kind \in {"raises", "text"} THEN <<>>
    ELSE IF ~content.truthy THEN <<>>
    ELSE IF content.kind = "array" THEN content.items
    ELSE <<NoTool>>

\* the message whose intent and intents are decoded from the two contents
Decoded(msg, single, multi) ==
    [msg EXCEPT !.intent = determine_intent(single),
                !.intents = extract_multiple_intents(multi),
                !.outputs = <<single, multi>>]

\* a payload sub-field of ChatResponse (expense_info, calorie_info): None, or
\* the dictionary a tool filled in
NoInfo == [present |-> FALSE, actions_logged |-> 0, total |-> 0]
Info(actions_logged, total) ==
    [present |-> TRUE, actions_logged |-> actions_logged, total |-> total]

\* the text of a handler's ChatResponse, by the tool that wrote it and
\* whether it reports a success
Fragment(tool, success) == <<tool, success>>
\* " \n\n".join(tool_responses): the fragments with the separator between them
Separator == Fragment("separator", TRUE)
RECURSIVE join(_)
join(tool_responses) ==
    IF Len(tool_responses) <= 1 THEN tool_responses
    ELSE <<Head(tool_responses), Separator>> \o join(Tail(tool_responses))
\* the text of the ChatResponse the multi-intent branch starts from
HelpText == <<Fragment("I'll help you with that.", TRUE)>>
\* the text of the ChatResponse of the outer except
TroubleText == <<Fragment("I'm having trouble processing that right now.", FALSE)>>

\* the store, the request and the response while one message is processed;
\* user_id is request.user_id, raised is an exception on its way to the
\* outer except
Processing(tx, txId, ml, mlId, user_id, processed_tools, dispatched, raised) ==
    [tx |-> tx, txId |-> txId, ml |-> ml, mlId |-> mlId, user_id |-> user_id,
     processed_tools |-> processed_tools, dispatched |-> dispatched, raised |-> raised,
     tool_responses |-> <<>>, expense_info |-> NoInfo, calorie_info |-> NoInfo]

\* the ChatResponse of CalorieTool.process_request: a query always carries a
\* calorie_info, a log carries one when every meal was saved
calorie_response(st, msg, local_time, t) ==
    LET res == calorie_handle_logging(st.ml, st.mlId, st.user_id, local_time, msg.foods, t)
    IN  IF msg.food_query
        THEN [success |-> TRUE,
              calorie_info |-> Info(0, IF st.user_id = NoUser THEN 0
                                       ELSE get_calories_by_period(st.ml, st.user_id, "daily",
                                                                   NoMonth, t))]
        ELSE [success |-> res.success,
              calorie_info |-> IF res.success THEN Info(res.logged, res.total) ELSE NoInfo]

\* the ChatResponse of BudgetTool.process_request: every branch carries an
\* expense_info
budget_response(st, msg, caller, local_time, reply, t) ==
    LET res == budget_handle_logging(st.tx, st.txId, caller, local_time, msg.expense, reply, t)
    IN  IF msg.expense_query
        THEN [success |-> TRUE,
              expense_info |-> Info(0, SumValues(get_transactions_by_period(
                                           st.tx, caller, "daily", NoMonth, t)))]
        ELSE [success |-> res.success, expense_info |-> Info(res.logged, res.total)]

\* CalorieTool.process_request as the chat router calls it
chat_calories(st, msg, local_time, t) ==
    LET res == calorie_handle_logging(st.ml, st.mlId, st.user_id, local_time, msg.foods, t)
    IN  IF msg.food_query THEN st
        ELSE [st EXCEPT !.ml = res.table, !.mlId = st.mlId + res.logged]

\* BudgetTool.process_request as the chat router calls it, after
\* request.user_id = current_user["id"]
chat_budget(st, msg, caller, local_time, reply, t) ==
    LET res == budget_handle_logging(st.tx, st.txId, caller, local_time, msg.expense, reply, t)
    IN  IF msg.expense_query THEN [st EXCEPT !.user_id = caller]
        ELSE [st EXCEPT !.user_id = caller, !.tx = res.table, !.txId = st.txId + res.logged]

\* one iteration of the loop over multiple_intents.  recommend_restaurants
\* is the route function of routers/restaurants.py, called here with the
\* message text and without its dependencies: it raises.
dispatch_intent(st, tool, msg, caller, local_time, reply, t) ==
    IF st.raised THEN st
    ELSE IF tool = NoTool THEN [st EXCEPT !.raised = TRUE]
    ELSE IF tool \in st.processed_tools THEN st
    ELSE IF tool = "calories"
         THEN LET r == calorie_response(st, msg, local_time, t)
              IN  [chat_calories(st, msg, local_time, t) EXCEPT
                      !.processed_tools = @ \cup {"calories"},
                      !.dispatched = Append(@, "calories"),
                      !.calorie_info = r.calorie_info,
                      !.tool_responses = Append(@, Fragment("calories", r.success))]
    ELSE IF tool = "budget"
         THEN LET r == budget_response(st, msg, caller, local_time, reply, t)
              IN  [chat_budget(st, msg, caller, local_time, reply, t) EXCEPT
                      !.processed_tools = @ \cup {"budget"},
                      !.dispatched = Append(@, "budget"),
                      !.expense_info = r.expense_info,
                      !.tool_responses = Append(@, Fragment("budget", r.success))]
    ELSE IF tool = "restaurant"
         THEN [st EXCEPT !.dispatched = Append(@, "restaurant"), !.raised = TRUE]
    ELSE st

\* the loop over multiple_intents: each iteration starts from the state the
\* one before it left
RECURSIVE dispatch_all(_, _, _, _, _, _, _)
dispatch_all(st, intents, msg, caller, local_time, reply, t) ==
    IF intents = <<>> THEN st
    ELSE CHOOSE done \in
             {dispatch_all(next, Tail(intents), msg, caller, local_time, reply, t) :
                 next \in {dispatch_intent(st, Head(intents), msg, caller, local_time, reply, t)}} :
             TRUE

\* the single-intent branch
single_intent(st, msg, caller, local_time, reply, t) ==
    LET intent == msg.intent
    IN  IF intent.tool = NoTool THEN [st EXCEPT !.raised = TRUE]
        ELSE IF intent.tool = "calories" /\ intent.action = "query"
             THEN IF intent.query_type = "nutrition" THEN st
                  ELSE [chat_calories(st, msg, local_time, t) EXCEPT
                           !.dispatched = Append(@, "calories"),
                           !.calorie_info = calorie_response(st, msg, local_time, t).calorie_info,
                           !.tool_responses =
                               <<Fragment("calories",
                                          calorie_response(st, msg, local_time, t).success)>>]
        ELSE IF intent.tool = "calories" /\ intent.action = "log"
             THEN [chat_calories(st, msg, local_time, t) EXCEPT
                      !.dispatched = Append(@, "calories"),
                      !.calorie_info = calorie_response(st, msg, local_time, t).calorie_info,
                      !.tool_responses =
                          <<Fragment("calories",
                                     calorie_response(st, msg, local_time, t).success)>>]
        ELSE IF intent.tool = "budget"
             THEN LET r == budget_response(st, msg, caller, local_time, reply, t)
                  IN  [chat_budget(st, msg, caller, local_time, reply, t) EXCEPT
                          !.dispatched = Append(@, "budget"),
                          !.expense_info = r.expense_info,
                          !.tool_responses = <<Fragment("budget", r.success)>>]
        ELSE IF intent.tool = "restaurant"
             THEN [st EXCEPT !.dispatched = Append(@, "restaurant"), !.raised = TRUE]
        ELSE [st EXCEPT !.dispatched = Append(@, "conversation")]

\* the ChatResponse's success of the single-intent branch; talks is whether
\* the completion service answers the nutrition question or the conversation
single_success(st, msg, caller, local_time, reply, talks, t) ==
    IF st.raised THEN FALSE
    ELSE IF msg.intent.tool = "budget"
         THEN msg.expense_query \/ extract_expense_actions(msg.expense, reply) # <<>>
    ELSE IF msg.intent.tool = "calories" /\ msg.intent.action = "query"
         THEN msg.intent.query_type # "nutrition" \/ talks
    ELSE IF msg.intent.tool = "calories" /\ msg.intent.action = "log" THEN TRUE
    ELSE talks

\* process_chat_message: what it does to the ledgers and what it returns
chat_processing(caller, body_user, local_time, msg, reply, talks) ==
    /\ nextTxId + Len(msg.expense.items) <= MaxRows + 1
    /\ nextMealId + Len(msg.foods) <= MaxRows + 1
    /\ \E st \in {IF msg.intents # <<>>
                  THEN dispatch_all(Processing(transactions, nextTxId, meals, nextMealId,
                                               body_user, {}, <<>>, FALSE),
                                    msg.intents, msg, caller, local_time, reply, now)
                  ELSE single_intent(Processing(transactions, nextTxId, meals, nextMealId,
                                                body_user, {}, <<>>, FALSE),
                                     msg, caller, local_time, reply, now)} :
        LET multi == msg.intents # <<>>
            success == IF multi THEN ~st.raised
                       ELSE single_success(st, msg, caller, local_time, reply, talks, now)
            response == IF st.raised THEN TroubleText
                        ELSE IF multi
                             THEN (IF st.tool_responses = <<>> THEN HelpText
                                   ELSE join(st.tool_responses))
                        ELSE IF st.tool_responses # <<>> THEN st.tool_responses
                        ELSE IF msg.intent.tool = "calories"
                             THEN (IF talks THEN <<Fragment("nutrition", TRUE)>> ELSE TroubleText)
                        ELSE <<Fragment("conversation", talks)>>
        IN  /\ transactions' = st.tx
            /\ nextTxId' = st.txId
            /\ meals' = st.ml
            /\ nextMealId' = st.mlId
            /\ chat' = [caller |-> caller, multi |-> multi, intents |-> msg.intents,
                        dispatched |-> st.dispatched, success |-> success,
                        body_user |-> body_user,
                        logs |-> /\ ~msg.expense_query /\ ~msg.food_query
                                 /\ extract_expense_actions(msg.expense, reply) # <<>>
                                 /\ msg.foods # <<>>,
                        response |-> response, outputs |-> msg.outputs,
                        expense_info |-> IF st.raised THEN NoInfo ELSE st.expense_info,
                        calorie_info |-> IF st.raised THEN NoInfo ELSE st.calorie_info]
    /\ last' = NoAnswer
    /\ UNCHANGED now

\* process_chat_message, called with a request and no history
process_chat_message(caller, body_user, local_time, msg, reply, talks) ==
    /\ chat_processing(caller, body_user, local_time, msg, reply, talks)
    /\ UNCHANGED <<chat_messages, endpoint, pending>>

---------------------------------------------------------------------------
(* The chat history: table chat_messages and POST /chat/ *)

NoConversation == "none"
Conversations == {"c1"}

\* the default of ChatMessage.timestamp: datetime.now() evaluated once, when
\* models/chat.py is imported at the start of the process
DefaultTimestamp == CHOOSE t \in StartInstants : TRUE

\* ChatMessage(user_id=..., is_user=..., conversation_id=...): no timestamp
\* is passed, so the message carries the default
ChatMessage(user_id, is_user, conversation_id) ==
    [id |-> 0, user_id |-> user_id, is_user |-> is_user, timestamp |-> DefaultTimestamp,
     conversation_id |-> conversation_id]

\* ChatService.save_message: the row inserted, with the clock only when the
\* message has no timestamp
save_message(table, message, t) ==
    Append(table, [message EXCEPT !.id = Len(table) + 1,
                                  !.timestamp = IF message.timestamp = NoTime THEN t
                                                ELSE message.timestamp])

\* the sequences a set of rows can be returned in
RECURSIVE Orderings(_)
Orderings(rows) ==
    IF rows = {} THEN {<<>>}
    ELSE UNION {{<<r>> \o q : q \in Orderings(rows \ {r})} : r \in rows}

Rows(table) == {table[i] : i \in 1..Len(table)}

\* ChatService.get_conversation: ORDER BY timestamp ASC, which leaves the
\* order of rows of one timestamp to the database
get_conversation(table, conversation_id) ==
    {q \in Orderings({r \in Rows(table) : r.conversation_id = conversation_id}) :
        \A i \in 1..(Len(q) - 1) : q[i].timestamp <= q[i + 1].timestamp}

\* ChatService.get_messages: ORDER BY timestamp DESC LIMIT limit
get_messages(table, user_id, limit) ==
    {SubSeq(q, 1, IF Len(q) < limit THEN Len(q) ELSE limit) :
        q \in {o \in Orderings({r \in Rows(table) : r.user_id = user_id}) :
                  \A i \in 1..(Len(o) - 1) : o[i].timestamp >= o[i + 1].timestamp}}

RecentLimit == 10

IdsOf(q) == [i \in 1..Len(q) |-> q[i].id]

Endpoint(op, caller, conversation_id, failed, status, conversation_history, user_message, assistant_message) ==
    [op |-> op, caller |-> caller, conversation_id |-> conversation_id, failed |-> failed,
     status |-> status, conversation_history |-> conversation_history,
     user_message |-> user_message, assistant_message |-> assistant_message]
NoEndpoint == Endpoint("none", NoUser, NoConversation, "none", 0, <<>>, 0, 0)

\* which save_message of a request the store fails on
SaveFailures == {"none", "inbound", "outbound"}

\* POST /chat/: the user's message is saved, the history read, the message
\* processed and the response saved, all in one try whose except answers
\* 500.  A failure of the first save leaves the message unprocessed; a
\* failure of the second comes after the handlers have written.
chat_endpoint(caller, conversation_id, msg, talks, failed) ==
    /\ Len(chat_messages) + 2 <= MaxMessages
    /\ IF failed = "inbound"
       THEN /\ endpoint' = Endpoint("chat", caller, conversation_id, failed, 500, <<>>, 0, 0)
            /\ chat' = NoChat
            /\ last' = NoAnswer
            /\ UNCHANGED <<now, transactions, nextTxId, meals, nextMealId, chat_messages, pending>>
       ELSE LET saved == save_message(chat_messages,
                                      ChatMessage(caller, TRUE, conversation_id), now)
                answered == save_message(saved, ChatMessage(caller, FALSE, conversation_id), now)
            IN  /\ chat_processing(caller, NoUser, NoTime, msg, AiRaises, talks)
                /\ UNCHANGED pending
                /\ \E conversation_history \in
                         (IF conversation_id # NoConversation
                          THEN get_conversation(saved, conversation_id)
                          ELSE get_messages(saved, caller, RecentLimit)) :
                       IF failed = "outbound"
                       THEN /\ chat_messages' = saved
                            /\ endpoint' = Endpoint("chat", caller, conversation_id, failed, 500,
                                                    IdsOf(conversation_history), Len(saved), 0)
                       ELSE /\ chat_messages' = answered
                            /\ endpoint' = Endpoint("chat", caller, conversation_id, failed, 200,
                                                    IdsOf(conversation_history), Len(saved),
                                                    Len(answered))

---------------------------------------------------------------------------
(* The expense ledger: the budget endpoints and the budget messages of    *)
(* the chat                                                                *)

\* BudgetTool.handle_query: the total of the answer
budget_handle_query(table, user_id, scope, month, t) ==
    SumValues(get_transactions_by_period(table, user_id, scope, month, t))

\* POST /query of the budget router: no authentication, the user is the
\* body's user_id
query_expenses(body_user, scope, month) ==
    /\ LET rows == get_raw_transactions(transactions, body_user, scope, month, NoDate, now)
       IN  last' = IF body_user = NoUser
                   THEN Answer("query_expenses", NoUser, NoUser, 0, 200, FALSE, FALSE, {}, 0)
                   ELSE Answer("query_expenses", NoUser, body_user, 0, 200, TRUE, FALSE,
                               Ids(TxBetween(transactions, body_user, PeriodWindow(scope, month, now))),
                               budget_handle_query(transactions, body_user, scope, month, now))
    /\ chat' = NoChat
    /\ UNCHANGED <<now, chat_messages, endpoint, pending, transactions, nextTxId, meals, nextMealId>>

\* get_transactions_by_period with a store that may be unreachable: when
\* get_connection raises, the except returns the empty dictionary
get_transactions_by_period_store(reachable, table, user_id, period, month, t) ==
    IF reachable THEN get_transactions_by_period(table, user_id, period, month, t)
    ELSE GroupByCategory({})

\* BudgetTool.handle_query: the success, the text and the total of the
\* ChatResponse.  The except branch ("Sorry, I couldn't retrieve your
\* transactions.", success false) needs an exception that reaches
\* handle_query, and get_transactions_by_period lets none out.
handle_query(reachable, table, user_id, scope, month, t) ==
    LET category_amounts ==
            get_transactions_by_period_store(reachable, table, user_id, scope, month, t)
    IN  IF user_id = NoUser
        THEN [success |-> TRUE, text |-> "No user ID provided", total |-> 0]
        ELSE IF DOMAIN category_amounts = {}
             THEN [success |-> TRUE, text |-> "You haven't logged any transactions",
                   total |-> 0]
        ELSE [success |-> TRUE, text |-> "you've spent", total |-> SumValues(category_amounts)]

\* POST /query of the budget router while the store is reachable or not
query_expenses_store(body_user, scope, month, reachable) ==
    /\ LET res == handle_query(reachable, transactions, body_user, scope, month, now)
           op == IF reachable THEN "query_expenses" ELSE "query_expenses_unreachable"
       IN  last' = IF body_user = NoUser
                   THEN Answer(op, NoUser, NoUser, 0, 200, FALSE, FALSE, {}, 0)
                   ELSE [Answer(op, NoUser, body_user, 0, 200, res.success, FALSE, {}, res.total)
                         EXCEPT !.entry = <<res.text>>]
    /\ chat' = NoChat
    /\ UNCHANGED <<now, chat_messages, endpoint, pending, transactions, nextTxId, meals, nextMealId>>

\* what the budget tool reads from the messages sent: whether it is a
\* query, what the extraction finds, and what the completion service answers
\* when asked for a category
BudgetMessage(expense_query, expense) ==
    Message(Intent("budget", "log", ""), <<>>, expense_query, expense, FALSE, <<>>)

BudgetChats ==
    {<<BudgetMessage(FALSE, ExpenseParse(FALSE, <<>>)), AiRaises>>,
     <<BudgetMessage(TRUE, ExpenseParse(FALSE, <<>>)), AiRaises>>,
     <<BudgetMessage(FALSE, ExpenseParse(TRUE, <<ExpenseAction(10, "", "lunch")>>)), AiRaises>>,
     <<BudgetMessage(FALSE, ExpenseParse(TRUE, <<ExpenseAction(25, "", "vet")>>)), "pets">>,
     <<BudgetMessage(FALSE, ExpenseParse(TRUE, <<ExpenseAction(25, "", "vet")>>)), "fast food">>,
     <<BudgetMessage(FALSE, ExpenseParse(TRUE, <<ExpenseAction(25, "", "vet")>>)), AiRaises>>,
     <<BudgetMessage(FALSE, ExpenseParse(FALSE, <<ExpenseAction(10, "pets", "vet")>>)), AiRaises>>,
     <<BudgetMessage(FALSE, ExpenseParse(FALSE, <<ExpenseAction(10, "", "food"),
                                                  ExpenseAction(25, "dining", "lunch")>>)),
       AiRaises>>}

\* the requests of POST /entries/add that can be in flight together
Requests == {"r1", "r2"}

\* one request of POST /entries/add: where it is in the handler, who sent
\* it, the body, the timestamp taken first, the ids of the recent entries
\* it read, and the id it was given
Request(stage, caller, entry, timestamp, seen, id) ==
    [stage |-> stage, caller |-> caller, entry |-> entry, timestamp |-> timestamp,
     seen |-> seen, id |-> id]

NoRequest == Request("idle", NoUser, <<>>, NoTime, {}, 0)

Init ==
    /\ now \in StartInstants
    /\ transactions = {}
    /\ nextTxId = 1
    /\ meals = {}
    /\ nextMealId = 1
    /\ last = NoAnswer
    /\ chat = NoChat
    /\ chat_messages = <<>>
    /\ endpoint = NoEndpoint
    /\ pending = [r \in Requests |-> NoRequest]

\* the transaction_id of the update and delete requests sent: none, one
\* that is no number, and the ids the sequence can have assigned
TransactionIds == {0, MalformedId} \cup 1..MaxRows

\* the writes of the expense ledger
NextBudget ==
    \/ Tick
    \/ \E caller \in Users, e \in ExpenseInputs :
            track_expense(caller, e.amount, e.category, e.description)
    \/ \E caller \in Users, e \in ExpenseInputs :
            add_transaction(caller, e.amount, e.category, e.description)
    \/ \E caller \in Users, transaction_id \in TransactionIds, e \in UpdateInputs :
            update_transaction_endpoint(caller, transaction_id, e.amount, e.category,
                                        e.description)
    \/ \E caller \in Users, transaction_id \in TransactionIds :
            delete_transaction_endpoint(caller, transaction_id)
    \/ \E caller \in Users, body_user \in BodyUsers, c \in BudgetChats :
            process_chat_message(caller, body_user, NoTime, c[1], c[2], TRUE)

SpecBudget == Init /\ [][NextBudget]_vars

\* the period, month and date of the queries sent
InputQueries == {<<"daily", NoMonth, NoDate>>,
                 <<"daily", NoMonth, DateYMD(DayNumber(2023, 12, 31))>>,
                 <<"monthly", MonthYM(2023, 12), NoDate>>,
                 <<"hourly", NoMonth, NoDate>>}

\* the queries of the expense ledger
NextQueries ==
    \/ Tick
    \/ \E caller \in Users, e \in ExpenseInputs :
            track_expense(caller, e.amount, e.category, e.description)
    \/ \E caller \in Users, q \in InputQueries : get_transactions(caller, q[1], q[2])
    \/ \E caller \in Users, body_user \in BodyUsers, q \in InputQueries :
            post_transactions(caller, body_user, q[1], q[2], q[3])
    \/ \E caller \in Users, body_user \in BodyUsers : post_daily_total(caller, body_user)
    \/ \E body_user \in BodyUsers, q \in InputQueries :
            query_expenses(body_user, IF q[1] = "hourly" THEN "specific_month" ELSE q[1], q[2])

SpecQueries == Init /\ [][NextQueries]_vars

\* the queries of the expense ledger while the store comes and goes
NextOutage ==
    \/ Tick
    \/ \E caller \in Users, e \in ExpenseInputs :
            track_expense(caller, e.amount, e.category, e.description)
    \/ \E body_user \in BodyUsers, scope \in {"daily", "monthly"}, reachable \in BOOLEAN :
            query_expenses_store(body_user, scope, NoMonth, reachable)

SpecOutage == Init /\ [][NextOutage]_vars

---------------------------------------------------------------------------
(* The calorie ledger: the endpoints of the calories router *)

\* the structured adds and the deletes of the calorie ledger
NextCalories ==
    \/ Tick
    \/ \E caller \in Users, entry \in CalorieEntries, timestamp \in LocalTimes(now) :
            add_calorie_entry(caller, entry, timestamp)
    \/ \E caller \in Users, body_user \in BodyUsers, entry_id \in 0..MaxRows :
            delete_calorie_entry_endpoint(caller, body_user, entry_id)

SpecCalories == Init /\ [][NextCalories]_vars

\* the updates of the calorie ledger, through the endpoint and at the
\* database layer
NextCalorieUpdate ==
    \/ Tick
    \/ \E caller \in Users, entry \in {Banana, CupRice} :
            add_calorie_entry(caller, entry, NoTime)
    \/ \E caller \in Users, body_user \in BodyUsers, entry_id \in 0..MaxRows,
          supplied \in SuppliedSets :
            update_calorie_entry_endpoint(caller, body_user, entry_id, Patch, supplied)
    \/ \E user_id \in Users, entry_id \in 1..MaxRows, fields \in {{}, {"calories"}} :
            db_update_calorie_entry(user_id, entry_id, Patch, fields)

SpecCalorieUpdate == Init /\ [][NextCalorieUpdate]_vars

\* the free-text logs and the queries of the calorie ledger
NextCalorieLog ==
    \/ Tick
    \/ \E caller \in Users, local_time \in LocalTimes(now), actions \in FoodParses :
            log_calories(caller, local_time, actions)
    \/ \E caller \in Users, q \in InputQueries : get_calorie_entries(caller, q[1], q[2])
    \/ \E caller \in Users, body_user \in BodyUsers, q \in InputQueries :
            post_calorie_entries(caller, body_user, q[1], q[2])
    \/ \E caller \in Users, body_user \in BodyUsers, q \in InputQueries :
            post_summary(caller, body_user, q[1], q[2])

SpecCalorieLog == Init /\ [][NextCalorieLog]_vars

---------------------------------------------------------------------------
(* Properties of the expense ledger *)

\* the step is the handling of a request to one of the endpoints ops
Handles(ops) == last'.op \in ops /\ now' = now /\ chat' = NoChat

\* C4: a direct structured expense write (add_transaction) with valid typed
\* fields persists exactly one new entry, owned by the caller, and answers
\* success with the updated daily aggregate.
C4_AddTransactionPersistsOne ==
    [][Handles({"add_transaction"}) =>
          /\ last'.status = 200
          /\ \E r \in transactions' : /\ transactions' \ transactions = {r}
                                      /\ r.user_id = last'.caller
                                      /\ r.id = last'.id
          /\ transactions \subseteq transactions'
          /\ last'.total = SumValues(DailySummary(transactions', last'.caller, now))]_vars

\* C5: after any sequence of free-text logs and direct writes, every
\* persisted expense entry has a category of the closed set.
C5_CategoriesClosed == \A r \in transactions : r.category \in Categories

\* the request names an entry id that no entry of the caller has
Miss == ~ \E r \in transactions : r.id = last'.id /\ r.user_id = last'.caller

\* the request carried a transaction_id, so the database layer was called
Called == Handles({"update_transaction", "delete_transaction"}) /\ last'.id # 0

QueryMonths == {NoMonth, BadMonth, MonthNum(2), MonthNum(12), MonthNum(13),
                MonthYM(2023, 12), MonthYM(2024, 1)}

FoldOfList(user_id, period, month) ==
    LET aggregate == get_transactions_by_period(transactions, user_id, period, month, now)
        list == get_raw_transactions(transactions, user_id, period, month, NoDate, now)
    IN  /\ SumValues(aggregate) = SumAmounts(list)
        /\ DOMAIN aggregate = {r.category : r \in list}
        /\ \A c \in DOMAIN aggregate : aggregate[c] = SumAmounts({r \in list : r.category = c})

\* C9: for every user, period keyword and ledger content, the per-category
\* totals of get_transactions_by_period sum to the sum of the amounts of the
\* entries get_raw_transactions lists for the same user and period, and each
\* category total is the sum of the listed entries of that category.
C9_AggregateIsFoldOfList ==
    \A user_id \in Users, period \in Periods \cup {"hourly"}, month \in QueryMonths :
        FoldOfList(user_id, period, month)

\* C9 happens: a user has two entries of one category and one of them is
\* stamped after 23:59:59, so that today's exact window holds one and the
\* date-only window both
C9_TwoOfOneCategoryReached ==
    \E r1, r2 \in transactions :
        /\ r1.id # r2.id
        /\ r1.user_id = r2.user_id
        /\ r1.category = r2.category
        /\ DATE(r1.timestamp) = DATE(now)
        /\ DATE(r2.timestamp) = DATE(now)
        /\ SlotOf(r1.timestamp) = SlotsPerDay - 1
        /\ SlotOf(r2.timestamp) < SlotsPerDay - 1

---------------------------------------------------------------------------
(* Properties of the scoping by user *)

\* the list, aggregate, update and delete endpoints of the two ledgers
ScopedOps == {"get_transactions", "post_transactions", "post_daily_total", "query_expenses",
              "update_transaction", "delete_transaction",
              "get_calorie_entries", "post_calorie_entries", "post_summary",
              "update_calorie_entry", "delete_calorie_entry"}

\* the table an endpoint works on
Ledger(op) ==
    IF op \in {"get_transactions", "post_transactions", "post_daily_total", "query_expenses",
               "update_transaction", "delete_transaction"}
    THEN transactions ELSE meals

\* C1: for every list, aggregate, update and delete request, the user whose
\* entries are read or changed is the authenticated caller, whatever user_id
\* the request body carries: the entries an answer is computed from are the
\* caller's, and an update or delete that succeeds was scoped to the caller.
C1_ScopedToCaller ==
    last.op \in ScopedOps =>
        /\ \A r \in Ledger(last.op) : r.id \in last.seen => r.user_id = last.caller
        /\ last.ok /\ last.id # 0 => last.user_id = last.caller

---------------------------------------------------------------------------
(* Properties of the calorie ledger *)

\* C2: when the same user logs the same food entry (same name, same
\* calories) twice within the current day, exactly one entry is persisted:
\* no user has two entries of one name and one calorie count stamped on the
\* same day.  (Every entry is stamped on the day it is logged.)
C2_OnePerDay ==
    \A r1, r2 \in meals :
        /\ r1.user_id = r2.user_id
        /\ r1.food_item = r2.food_item
        /\ r1.calories = r2.calories
        /\ DATE(r1.timestamp) = DATE(r2.timestamp)
        => r1.id = r2.id

\* the stated duplicate predicate: some entry of the user in the lookback
\* window has a similar name and calories within 10 of the candidate's
IsDuplicate(entry, user_id) ==
    \E recent_entry \in get_raw_calorie_entries(meals, user_id, "daily", NoMonth, now) :
        similar_food(entry, recent_entry) /\ similar_calories(entry, recent_entry)

\* C3: add_calorie_entry reports a candidate as a duplicate, and persists
\* nothing, if and only if the stated predicate holds of it; otherwise the
\* candidate is persisted.
C3_DuplicateDecision ==
    [][Handles({"add_calorie_entry"}) =>
          /\ last'.dup <=> IsDuplicate(last'.entry, last'.caller)
          /\ last'.dup => meals' = meals
          /\ ~last'.dup => \E r \in meals' : /\ r \notin meals
                                             /\ meals' = meals \cup {r}
                                             /\ r.id = last'.id
                                             /\ r.user_id = last'.caller]_vars

\* the fields of a stored meal
RowFields == MealFields \cup {"id", "user_id", "timestamp"}

\* C7: a successful update request overwrites only the fields the caller
\* supplied; every other field of the entry keeps the value it had.
C7_UpdateIsSparse ==
    [][Handles({"update_calorie_entry"}) /\ last'.ok =>
          \A r \in meals : r.id = last'.id =>
              \E r2 \in meals' : /\ r2.id = r.id
                                 /\ \A f \in RowFields \ last'.supplied : r2[f] = r[f]]_vars

\* C8: update on an entry owned by the caller with no fields supplied leaves
\* the entry unchanged and returns true.
C8_EmptyPatchReturnsTrue ==
    [][/\ Handles({"db_update_calorie_entry"})
       /\ last'.supplied = {}
       /\ \E r \in meals : r.id = last'.id /\ r.user_id = last'.user_id
       => last'.ok /\ meals' = meals]_vars

---------------------------------------------------------------------------
(* The chat: messages of one or several intents *)

\* the arrays extract_multiple_intents returns: up to MaxIntents elements
RECURSIVE SeqsUpTo(_, _)
SeqsUpTo(S, n) ==
    IF n = 0 THEN {<<>>}
    ELSE LET shorter == SeqsUpTo(S, n - 1)
         IN  shorter \cup {Append(q, x) : q \in shorter, x \in S}

\* the tools the multi-intent branch has a handler for
HandledTools == {"calories", "budget", "restaurant"}

IntentArrays ==
    (SeqsUpTo(HandledTools, MaxIntents) \ {<<>>})
    \cup {<<"conversation">>, <<"conversation", "budget">>, <<"budget", "conversation">>,
          <<NoTool>>, <<"budget", NoTool, "calories">>}

\* the objects determine_intent returns
SingleIntents ==
    {Intent("calories", "log", ""), Intent("calories", "query", "consumption"),
     Intent("calories", "query", "nutrition"), Intent("budget", "log", ""),
     Intent("restaurant", "query", ""), Intent("conversation", "chat", ""),
     Intent(NoTool, "", "")}

\* "I spent 10 on lunch and ate a banana", and a question
SpentAndAte(intent, intents) ==
    Message(intent, intents, FALSE, ExpenseParse(TRUE, <<ExpenseAction(10, "", "lunch")>>),
            FALSE, <<FoodAction(<<"banana">>, 1, <<"piece">>, 105, 27, 1, 0)>>)

Asked(intent, intents) ==
    Message(intent, intents, TRUE, ExpenseParse(FALSE, <<>>), TRUE, <<>>)

MultiMessages ==
    {SpentAndAte(Intent("conversation", "chat", ""), intents) : intents \in IntentArrays}
    \cup {Asked(Intent("conversation", "chat", ""), <<"budget", "calories">>)}

SingleMessages ==
    {SpentAndAte(intent, <<>>) : intent \in SingleIntents}
    \cup {Asked(intent, <<>>) : intent \in {Intent("calories", "query", "consumption"),
                                           Intent("budget", "query", "")}}

\* the user_id of the chat bodies: none, or another user's
ChatBodyUsers == {NoUser, "u2"}

NextChat ==
    \/ \E caller \in Users, body_user \in ChatBodyUsers, msg \in MultiMessages :
            process_chat_message(caller, body_user, NoTime, msg, AiRaises, TRUE)
    \/ \E caller \in Users, body_user \in ChatBodyUsers, msg \in SingleMessages,
          talks \in BOOLEAN :
            process_chat_message(caller, body_user, NoTime, msg, AiRaises, talks)

SpecChat == Init /\ [][NextChat]_vars

\* the contents the completion service answers with
SingleContents ==
    {ServiceRaises, NotJson, JsonString, JsonNull, JsonArray(<<"budget">>),
     JsonObject(NoTool, "chat", ""), JsonObject("budget", "log", ""),
     JsonObject("calories", "log", ""), JsonObject("conversation", "chat", ""),
     JsonObject("weather", "query", "")}

MultiContents ==
    {ServiceRaises, NotJson, JsonString, JsonNull, JsonEmptyObject, JsonArray(<<>>),
     JsonObject("budget", "log", ""), JsonArray(<<"budget">>),
     JsonArray(<<"calories", "budget">>)}

\* process_chat_message from the two answers of the completion service
NextDecode ==
    \E caller \in Users, single \in SingleContents, multi \in MultiContents, talks \in BOOLEAN :
        process_chat_message(caller, NoUser, NoTime,
                             Decoded(SpentAndAte(Intent("", "", ""), <<>>), single, multi),
                             AiRaises, talks)

SpecDecode == Init /\ [][NextDecode]_vars

\* the chats of users whose messages are recorded
NextHistory ==
    \/ Tick
    \/ \E caller \in Users, conversation_id \in Conversations \cup {NoConversation},
          msg \in {Asked(Intent("budget", "query", ""), <<>>),
                   SpentAndAte(Intent("budget", "log", ""), <<>>)},
          failed \in SaveFailures :
            chat_endpoint(caller, conversation_id, msg, TRUE, failed)

SpecHistory == Init /\ [][NextHistory]_vars

---------------------------------------------------------------------------
(* Properties of the chat *)

Occurs(tool, seq) == \E i \in 1..Len(seq) : seq[i] = tool
Count(tool, seq) == Cardinality({i \in 1..Len(seq) : seq[i] = tool})

\* C10: in the multi-intent branch no handler runs twice for one message,
\* and every tool named in the intent array is dispatched to its handler
\* (exactly once, however often the array names it).
C10_EachToolOnce ==
    chat.multi =>
        /\ \A tool \in Tools : Count(tool, chat.dispatched) <= 1
        /\ \A tool \in HandledTools :
              Occurs(tool, chat.intents) => Count(tool, chat.dispatched) = 1

\* the fragments a response text is made of, without the separators
RECURSIVE FragmentsOf(_)
FragmentsOf(text) ==
    IF text = <<>> THEN <<>>
    ELSE IF Head(text) = Separator THEN FragmentsOf(Tail(text))
    ELSE <<Head(text)[1]>> \o FragmentsOf(Tail(text))

\* the message logs an expense and a food, and the intent array names the
\* budget and the calories tool and nothing else
BudgetAndFoodLog ==
    /\ chat.multi
    /\ chat.logs
    /\ {chat.intents[i] : i \in 1..Len(chat.intents)} = {"budget", "calories"}

\* C11: for a multi-intent message whose intents are a budget log and a food
\* log, both handlers are dispatched, the response text is the handlers'
\* fragments joined by the separator in dispatch order, and expense_info and
\* calorie_info are both non-null.
C11_BothPayloadsMerged ==
    BudgetAndFoodLog =>
        /\ Count("budget", chat.dispatched) = 1
        /\ Count("calories", chat.dispatched) = 1
        /\ FragmentsOf(chat.response) = chat.dispatched
        /\ Len(chat.response) = 3
        /\ chat.response[2] = Separator
        /\ chat.expense_info.present
        /\ chat.calorie_info.present

\* the content is the JSON of an object with a "tool" and an "action"
IsToolAction(content) ==
    content.kind = "object" /\ content.tool # NoTool /\ content.action # ""

\* C12: when the single-intent output is not decodable into a {tool, action}
\* object and the single-intent branch is taken, the conversational handler
\* is dispatched and nothing else; when the multi-intent output is not
\* decodable into an array, the single-intent branch is taken.
C12_DecodeWithDefault ==
    chat.outputs # <<>> =>
        /\ (~IsToolAction(chat.outputs[1]) /\ ~chat.multi)
               => chat.dispatched = <<"conversation">>
        /\ chat.outputs[2].kind # "array" => ~chat.multi

\* C13: when a save of the inbound or of the outbound message fails, the
\* chat request still answers with the handler's response.
C13_HistoryIsBestEffort ==
    (endpoint.op = "chat" /\ endpoint.failed # "none") =>
        /\ endpoint.status = 200
        /\ chat # NoChat

\* the ids 1..n in ascending order: the order the rows were recorded in
Ascending(ids) == \A i \in 1..(Len(ids) - 1) : ids[i] < ids[i + 1]

\* C14: a chat message answered with 200 has its user message and its
\* response recorded, the user message first; and the history of a
\* conversation, read in timestamp order, is in the order the messages were
\* recorded.
C14_HistoryInRecordedOrder ==
    (endpoint.op = "chat" /\ endpoint.status = 200) =>
        /\ endpoint.user_message \in 1..Len(chat_messages)
        /\ endpoint.assistant_message \in 1..Len(chat_messages)
        /\ chat_messages[endpoint.user_message].is_user
        /\ ~chat_messages[endpoint.assistant_message].is_user
        /\ endpoint.user_message < endpoint.assistant_message
        /\ (endpoint.conversation_id # NoConversation
               => Ascending(endpoint.conversation_history))

\* C15: an update or delete request that names an integer id of no entry of
\* the caller is answered as a not-found failure (404), a status distinct from
\* the one of an internal or storage error (500).
C15_MissIsNotFound ==
    [][Called /\ Miss /\ last'.id # MalformedId => last'.status = 404]_vars

\* C16: a query handled while the store is unreachable is answered with
\* success false, never as a successful answer that nothing was logged.
C16_OutageIsFailure ==
    last.op = "query_expenses_unreachable" => ~last.ok

---------------------------------------------------------------------------
(* The period windows as a function of the reference instant *)

\* the reference instants: every slot of the days around the end of 2023 and
\* around the leap day of 2024
WindowDays ==
    (DayNumber(2023, 12, 25) .. DayNumber(2024, 1, 7))
    \cup (DayNumber(2024, 2, 26) .. DayNumber(2024, 3, 3))

WindowInstants == {StartOfDay(day) + slot : day \in WindowDays, slot \in 0..(SlotsPerDay - 1)}

InitWindows ==
    /\ now \in WindowInstants
    /\ transactions = {}
    /\ nextTxId = 1
    /\ meals = {}
    /\ nextMealId = 1
    /\ last = NoAnswer
    /\ chat = NoChat
    /\ chat_messages = <<>>
    /\ endpoint = NoEndpoint
    /\ pending = [r \in Requests |-> NoRequest]

\* the date range of a query: last.supplied is the period keyword,
\* last.entry the start and the end
period_window(period, month, date) ==
    /\ LET w == RawPeriodWindow(period, month, date, now)
       IN  last' = [Answer("period_window", NoUser, NoUser, 0, 0, TRUE, FALSE, {}, 0)
                    EXCEPT !.supplied = {period}, !.entry = <<w.start, w.end>>]
    /\ chat' = NoChat
    /\ UNCHANGED <<now, chat_messages, endpoint, pending, transactions, nextTxId, meals, nextMealId>>

NextWindows ==
    \E period \in Periods, month \in QueryMonths,
       date \in {NoDate, BadDate, DateYMD(DayNumber(2024, 2, 29))} :
        period_window(period, month, date)

SpecWindows == InitWindows /\ [][NextWindows]_vars

\* the Monday of the week of a day; 1 January 2024 is a Monday
MondayOf(day) ==
    CHOOSE d \in (day - 6)..day : (d - DayNumber(2024, 1, 1) + 700) % 7 = 0

\* C17: for every period keyword and every reference instant the window's
\* start is not after its end; the weekly window starts at 00:00:00 of the
\* Monday of the reference week and ends at 23:59:59 of the reference date.
C17_WindowOrdered ==
    last.op = "period_window" =>
        /\ last.entry[1] <= last.entry[2]
        /\ last.supplied = {"weekly"} =>
               /\ last.entry[1] = StartOfDay(MondayOf(DATE(now)))
               /\ last.entry[2] = EndOfDay(DATE(now))

\* C17 happens: a weekly window asked on a day that is not a Monday, in a
\* week that began in the month before
C17_WeekAcrossMonthsReached ==
    /\ last.op = "period_window"
    /\ last.supplied = {"weekly"}
    /\ last.entry[1] < StartOfDay(DATE(now))
    /\ MonthOf(DATE(last.entry[1])) # MonthOf(DATE(now))

---------------------------------------------------------------------------
(* The classification of an expense description *)

\* descriptions: of one pattern group, of two, of none, and the empty one
ClassifyDescriptions ==
    {"", "lunch", "food", "taxi", "rent", "supermarket", "netflix", "amazon", "stock",
     "saving", "car insurance", "phone game", "save on groceries", "online stock",
     "wine store", "vet", "foodie"}

\* what the completion service would answer: a failure, a label of the closed
\* set, a label outside it that a substring rule maps, one that none maps
ClassifyReplies ==
    {AiRaises, "groceries", "other", "pets", "gaming", "fast food", "car rental",
     "utility bills", "healthcare", "stock market", "money saved", "clothing", "barber"}

\* categorize_expense applied: last.entry is the description, the answer of
\* the completion service and the category returned
classify(description, reply) ==
    /\ last' = [Answer("categorize_expense", NoUser, NoUser, 0, 0, TRUE, FALSE, {}, 0)
                EXCEPT !.entry = <<description, reply, categorize_expense(description, reply)>>]
    /\ chat' = NoChat
    /\ UNCHANGED <<now, chat_messages, endpoint, pending, transactions, nextTxId, meals, nextMealId>>

NextClassify ==
    \E description \in ClassifyDescriptions, reply \in ClassifyReplies :
        classify(description, reply)

SpecClassify == Init /\ [][NextClassify]_vars

\* the place of a category in the fixed priority order
Priority(category) == CHOOSE i \in 1..Len(CategoryOrder) : CategoryOrder[i] = category

\* C18: when a pattern group matches the description, the category returned
\* is the first one in the priority order (dining, groceries, transport,
\* entertainment, shopping, housing, investment, savings) whose group
\* matches, whatever the completion service would have answered.
C18_FirstMatchWins ==
    (last.op = "categorize_expense" /\ PatternHits(last.entry[1]) # {}) =>
        /\ CategoryOrder = <<"dining", "groceries", "transport", "entertainment",
                             "shopping", "housing", "investment", "savings">>
        /\ last.entry[3] \in PatternHits(last.entry[1])
        /\ \A c \in PatternHits(last.entry[1]) : Priority(last.entry[3]) <= Priority(c)

\* C18 happens: a description of two groups, classified as the earlier one
\* although the completion service would have named the later one
C18_EarlierGroupReached ==
    /\ last.op = "categorize_expense"
    /\ last.entry = <<"food", "groceries", "dining">>

\* the substrings the fallback looks for in a label outside the closed set
Needles ==
    {"food", "restaurant", "eat", "bar", "market", "grocer", "travel", "car", "gas", "movie",
     "game", "fun", "cloth", "buy", "purchase", "home", "rent", "bill", "invest", "stock",
     "save"}

\* C19: classify always returns a category of the closed set; with no
\* pattern match, a failure of the completion service gives other, and a
\* label outside the closed set gives the category of a substring rule, or
\* other when no rule applies.
C19_ClassifyIsTotal ==
    last.op = "categorize_expense" =>
        /\ last.entry[3] \in Categories
        /\ (last.entry[1] # "" /\ PatternHits(last.entry[1]) = {}) =>
               /\ last.entry[2] = AiRaises => last.entry[3] = "other"
               /\ last.entry[2] \in Categories => last.entry[3] = last.entry[2]
               /\ (last.entry[2] \notin Categories \cup {AiRaises}) =>
                      (last.entry[3] = "other" <=>
                          \A needle \in Needles : ~Has(last.entry[2], needle))

\* C19 happens: no pattern matches the description and the completion
\* service fails
C19_FailureGivesOtherReached ==
    /\ last.op = "categorize_expense"
    /\ last.entry = <<"vet", AiRaises, "other">>

---------------------------------------------------------------------------
(* The recommendations of the budget analysis *)

\* the 50/30/20 rule: the percentage of the income each group should take
IdealShare == [needs |-> 50, wants |-> 30, savings |-> 20]

\* analyze_budget: ideal_allocations, for an income that is a multiple of 100
ideal_allocations(salary) ==
    [category \in {"needs", "wants", "savings"} |-> (salary * IdealShare[category]) \div 100]

Spending(needs, wants, savings) == [needs |-> needs, wants |-> wants, savings |-> savings]

\* actual_percent - ideal_percent of a category, multiplied by the income:
\* (actual / salary) * 100 - (ideal / salary) * 100, and 0 - 0 without income
difference_by_salary(category, ideal, actual, salary) ==
    IF salary = 0 THEN 0 ELSE 100 * actual[category] - 100 * ideal[category]

Recommendation(tier, category, type, potential_savings) ==
    [tier |-> tier, category |-> category, type |-> type,
     potential_savings |-> potential_savings]

\* the rule tier with any excess over the ideal counted, however small
basic_recommendations_any_excess(ideal, actual, salary) ==
    (IF difference_by_salary("wants", ideal, actual, salary) > 0
     THEN <<Recommendation("rule", "wants", "reduce_spending",
                           actual["wants"] - ideal["wants"])>>
     ELSE <<>>)
    \o (IF difference_by_salary("savings", ideal, actual, salary) < 0
        THEN <<Recommendation("rule", "savings", "increase_savings",
                              ideal["savings"] - actual["savings"])>>
        ELSE <<>>)

\* the rule tier: the loop over needs, wants and savings
basic_recommendations(ideal, actual, salary) ==
    (IF difference_by_salary("wants", ideal, actual, salary) > 5 * salary
     THEN <<Recommendation("rule", "wants", "reduce_spending",
                           actual["wants"] - ideal["wants"])>>
     ELSE <<>>)
    \o (IF difference_by_salary("savings", ideal, actual, salary) < 0 - 5 * salary
        THEN <<Recommendation("rule", "savings", "increase_savings",
                              ideal["savings"] - actual["savings"])>>
        ELSE <<>>)

\* what _generate_ai_recommendations gives: it fails in a way that reaches
\* the caller (the "recommendations" of the answer are not a list), or it
\* returns a list
AiTierFails == <<Recommendation("ai", "fails", "fails", 0)>>
AiTiers ==
    {AiTierFails, <<>>, <<Recommendation("ai", "wants", "reduce_spending", 0)>>,
     <<Recommendation("ai", "dining", "optimize_category", 50)>>}

\* _generate_recommendations: the answers of the completion tier, then the
\* rule tier; the rule tier alone when the completion tier fails
generate_recommendations(ideal, actual, salary, ai_recommendations) ==
    IF ai_recommendations = AiTierFails THEN basic_recommendations(ideal, actual, salary)
    ELSE ai_recommendations \o basic_recommendations(ideal, actual, salary)

\* incomes and amounts around the two thresholds: 35% and 15% of the income
Salaries == {0, 100, 3000}
WantsSpent == {0, 30, 35, 36, 900, 1050, 1051, 1200}
SavingsSpent == {0, 14, 15, 16, 20, 449, 450, 600}

\* analyze_budget from the income and the categorized spending on:
\* last.entry is the income and the amounts, last.supplied the
\* recommendations returned
recommend(salary, actual, ai_recommendations) ==
    /\ LET recommendations == generate_recommendations(ideal_allocations(salary), actual,
                                                       salary, ai_recommendations)
       IN  last' = [Answer("analyze_budget", NoUser, NoUser, 0, 0, TRUE, FALSE, {}, 0)
                    EXCEPT !.entry = <<salary, actual["needs"], actual["wants"],
                                       actual["savings"]>>,
                           !.supplied = {recommendations[i] : i \in 1..Len(recommendations)}]
    /\ chat' = NoChat
    /\ UNCHANGED <<now, chat_messages, endpoint, pending, transactions, nextTxId, meals, nextMealId>>

NextRecommend ==
    \E salary \in Salaries, needs \in {0, 50}, wants \in WantsSpent, savings \in SavingsSpent,
       ai_recommendations \in AiTiers :
        recommend(salary, Spending(needs, wants, savings), ai_recommendations)

SpecRecommend == Init /\ [][NextRecommend]_vars

\* the rule tier recommended type for category
RuleEmits(type, category) ==
    \E rec \in last.supplied : rec.tier = "rule" /\ rec.type = type /\ rec.category = category

\* C20: for a positive income the rule tier emits reduce_spending for wants
\* exactly when the wants are more than 35% of the income (5 points over the
\* ideal 30%), and increase_savings exactly when the savings are less than
\* 15% of it (5 points under the ideal 20%); an income of 3000 with wants
\* of 1200 yields reduce_spending.
C20_RuleTierThresholds ==
    (last.op = "analyze_budget" /\ last.entry[1] > 0) =>
        /\ RuleEmits("reduce_spending", "wants") <=> 100 * last.entry[3] > 35 * last.entry[1]
        /\ RuleEmits("increase_savings", "savings") <=> 100 * last.entry[4] < 15 * last.entry[1]
        /\ (last.entry[1] = 3000 /\ last.entry[3] = 1200)
               => RuleEmits("reduce_spending", "wants")

\* C20 happens: an income of 3000 with wants of 1200, and the rule tier
\* recommends to reduce the spending on wants
C20_ReduceSpendingReached ==
    /\ last.op = "analyze_budget"
    /\ last.entry[1] = 3000
    /\ last.entry[3] = 1200
    /\ RuleEmits("reduce_spending", "wants")

---------------------------------------------------------------------------
(* The enrichment tier of the budget analysis *)

\* what the completion service answers the enrichment prompt with: it
\* raises, or its text is not JSON, or the JSON is an array, or an object
\* without "recommendations", or an object whose "recommendations" is not a
\* list (a string, an object, null), or an object with a list of count
\* recommendations
Enrichment(kind, count) == [kind |-> kind, count |-> count]

EnrichmentAnswers ==
    {Enrichment(kind, 0) : kind \in {"raises", "text", "array", "no_key", "not_list"}}
    \cup {Enrichment("list", count) : count \in {0, 1, 3, 4, 5}}

\* _generate_ai_recommendations: response_json.get("recommendations", []),
\* and [] from either except.  A value that is not a list is returned as it
\* is, and ai_recommendations + basic_recommendations raises on it.
generate_ai_recommendations(answer) ==
    IF answer.kind \in {"raises", "text", "array", "no_key"} THEN <<>>
    ELSE IF answer.kind = "not_list" THEN AiTierFails
    ELSE [i \in 1..answer.count |-> Recommendation("ai", "dining", "optimize_category", i)]

\* analyze_budget with the answer of the enrichment tier: last.entry is the
\* income, the amounts and the answer, last.supplied the recommendations
\* returned, each with its place in the list
analyze_budget(salary, actual, answer) ==
    /\ LET recommendations ==
               generate_recommendations(ideal_allocations(salary), actual, salary,
                                        generate_ai_recommendations(answer))
       IN  last' = [Answer("analyze_budget_enriched", NoUser, NoUser, 0, 0, TRUE, FALSE, {}, 0)
                    EXCEPT !.entry = <<salary, actual["needs"], actual["wants"],
                                       actual["savings"], answer.kind, answer.count>>,
                           !.supplied = {<<i, recommendations[i]>> :
                                            i \in 1..Len(recommendations)}]
    /\ chat' = NoChat
    /\ UNCHANGED <<now, chat_messages, endpoint, pending, transactions, nextTxId, meals, nextMealId>>

NextEnrich ==
    \E salary \in Salaries, wants \in {0, 1200}, savings \in {0, 600},
       answer \in EnrichmentAnswers :
        analyze_budget(salary, Spending(0, wants, savings), answer)

SpecEnrich == Init /\ [][NextEnrich]_vars

\* the list of recommendations last.supplied holds
Returned == [i \in 1..Cardinality(last.supplied) |->
                (CHOOSE pair \in last.supplied : pair[1] = i)[2]]

\* C21: the rule-tier recommendations of the income and the amounts are the
\* end of the list returned, unchanged and in order, whatever the enrichment
\* tier answered; the recommendations before them are the enrichment's, and
\* they are at most 4.
C21_RuleTierLast ==
    last.op = "analyze_budget_enriched" =>
        LET rule == basic_recommendations(ideal_allocations(last.entry[1]),
                                          Spending(last.entry[2], last.entry[3], last.entry[4]),
                                          last.entry[1])
            ahead == Len(Returned) - Len(rule)
        IN  /\ ahead >= 0
            /\ \A i \in 1..Len(rule) : Returned[ahead + i] = rule[i]
            /\ \A i \in 1..ahead : Returned[i].tier = "ai"
            /\ ahead <= 4

---------------------------------------------------------------------------
(* The actual allocation of the budget analysis *)

\* CATEGORY_MAPPING: the substrings that put a category into a group
CATEGORY_MAPPING ==
    [needs |-> {"groceries", "utilities", "rent", "healthcare", "housing", "transport"},
     wants |-> {"food", "entertainment", "dining", "shopping", "other"},
     savings |-> {"savings", "investment"}]

\* the categories of the aggregates: five of the closed set, one that no
\* substring matches, one that substrings of two groups match
LedgerCategories ==
    {"groceries", "dining", "transport", "savings", "investment", "pets", "rent savings"}

\* need in category_lower, for the categories above
InCategory(needle, category) ==
    \/ needle = category
    \/ <<needle, category>> \in {<<"rent", "rent savings">>, <<"savings", "rent savings">>}

AnyIn(needles, category) == \E needle \in needles : InCategory(needle, category)

\* the group one category's amount is added to: the if / elif / else chain
spending_group(category) ==
    IF AnyIn(CATEGORY_MAPPING["needs"], category) THEN "needs"
    ELSE IF AnyIn(CATEGORY_MAPPING["wants"], category) THEN "wants"
    ELSE IF AnyIn(CATEGORY_MAPPING["savings"], category) THEN "savings"
    ELSE "wants"

\* the sum of the amounts of the categories cats of an aggregate
RECURSIVE SumOver(_, _)
SumOver(transactions_by_category, cats) ==
    IF cats = {} THEN 0
    ELSE LET c == CHOOSE x \in cats : TRUE
         IN  transactions_by_category[c] + SumOver(transactions_by_category, cats \ {c})

\* the allocation with one test per group instead of the chain
get_categorized_spending_each_test(transactions_by_category) ==
    [group \in {"needs", "wants", "savings"} |->
        SumOver(transactions_by_category,
                {c \in DOMAIN transactions_by_category :
                    \/ AnyIn(CATEGORY_MAPPING[group], c)
                    \/ group = "wants" /\ \A g \in {"needs", "wants", "savings"} :
                                              ~AnyIn(CATEGORY_MAPPING[g], c)})]

\* get_categorized_spending, from the monthly aggregate
get_categorized_spending(transactions_by_category) ==
    [group \in {"needs", "wants", "savings"} |->
        SumOver(transactions_by_category,
                {c \in DOMAIN transactions_by_category : spending_group(c) = group})]

\* the amount of each category: a different power of two
CategoryAmount ==
    [c \in LedgerCategories |->
        CASE c = "groceries" -> 1 [] c = "dining" -> 2 [] c = "transport" -> 4
          [] c = "savings" -> 8 [] c = "investment" -> 16 [] c = "pets" -> 32
          [] OTHER -> 64]

\* get_categorized_spending applied: last.supplied is the aggregate,
\* last.entry the amounts of needs, wants and savings
categorize_spending(cats) ==
    /\ LET aggregate == [c \in cats |-> CategoryAmount[c]]
           spending == get_categorized_spending(aggregate)
       IN  last' = [Answer("get_categorized_spending", NoUser, NoUser, 0, 0, TRUE, FALSE, {}, 0)
                    EXCEPT !.entry = <<spending["needs"], spending["wants"],
                                       spending["savings"]>>,
                           !.supplied = {<<c, aggregate[c]>> : c \in cats}]
    /\ chat' = NoChat
    /\ UNCHANGED <<now, chat_messages, endpoint, pending, transactions, nextTxId, meals, nextMealId>>

NextAllocate == \E cats \in SUBSET LedgerCategories : categorize_spending(cats)

SpecAllocate == Init /\ [][NextAllocate]_vars

\* the sum of the amounts of a set of <<category, amount>> pairs
RECURSIVE SumPairs(_)
SumPairs(pairs) ==
    IF pairs = {} THEN 0
    ELSE LET pair == CHOOSE x \in pairs : TRUE IN pair[2] + SumPairs(pairs \ {pair})

\* C22: the amounts of needs, wants and savings are the sums of a split of
\* the categories into three parts, every category in exactly one part; so
\* they add up to the sum of all category totals; a category that no table
\* entry matches is in the part of wants.
C22_AllocationPartitions ==
    last.op = "get_categorized_spending" =>
        /\ last.entry[1] + last.entry[2] + last.entry[3] = SumPairs(last.supplied)
        /\ \E needs \in SUBSET last.supplied :
              \E wants \in SUBSET (last.supplied \ needs) :
                  /\ last.entry[1] = SumPairs(needs)
                  /\ last.entry[2] = SumPairs(wants)
                  /\ last.entry[3] = SumPairs(last.supplied \ (needs \cup wants))
                  /\ \A pair \in last.supplied : pair[1] = "pets" => pair \in wants

\* C22 happens: an aggregate with a category of the needs table, one of no
\* table and one that two tables match, each counted once
C22_EveryKindReached ==
    /\ last.op = "get_categorized_spending"
    /\ {"groceries", "pets", "rent savings", "savings"} = {pair[1] : pair \in last.supplied}
    /\ last.entry = <<65, 32, 8>>

---------------------------------------------------------------------------
(* POST /entries/add with requests in flight together: the handler gives  *)
(* way at every await, so the read of the recent entries and the save are *)
(* two steps, and another request can run between them                    *)

\* the loop over the recent entries answers "duplicate" for no entry
recent_duplicate_never(recent_entries) == FALSE

\* the loop over the recent entries: it answers "duplicate" in its first
\* iteration
recent_duplicate(recent_entries) == recent_entries # {}

\* the handler up to the await of the save: the timestamp, the read of the
\* recent entries and the loop over them
add_calorie_entry_read(r, caller, entry, timestamp) ==
    /\ pending[r].stage = "idle"
    /\ LET recent_entries == get_raw_calorie_entries(meals, caller, "daily", NoMonth, now)
           taken == IF timestamp = NoTime THEN now ELSE timestamp
       IN  IF recent_duplicate(recent_entries)
           THEN /\ pending' = [pending EXCEPT ![r] = Request("answered", caller, entry, taken,
                                                             Ids(recent_entries), 0)]
                /\ last' = [Answer("add_calorie_entry", caller, caller, 0, 200, TRUE, TRUE, {},
                                   get_calories_by_period(meals, caller, "daily", NoMonth, now))
                            EXCEPT !.entry = entry]
           ELSE /\ pending' = [pending EXCEPT ![r] = Request("read", caller, entry, taken,
                                                             Ids(recent_entries), 0)]
                /\ last' = NoAnswer
    /\ chat' = NoChat
    /\ UNCHANGED <<now, chat_messages, endpoint, transactions, nextTxId, meals, nextMealId>>

\* the handler from the save on: the INSERT and the summary of the answer
add_calorie_entry_save(r) ==
    /\ pending[r].stage = "read"
    /\ nextMealId <= MaxRows
    /\ LET req == pending[r]
           food_info == [req.entry EXCEPT
                             !.food_item = strip_unit(req.entry.food_item, req.entry.unit),
                             !.timestamp = req.timestamp]
           saved == save_meal(meals, nextMealId, req.caller, food_info, now)
       IN  /\ meals' = saved
           /\ nextMealId' = nextMealId + 1
           /\ pending' = [pending EXCEPT ![r].stage = "saved", ![r].id = nextMealId]
           /\ last' = [Answer("add_calorie_entry", req.caller, req.caller, nextMealId, 200,
                              TRUE, FALSE, {},
                              get_calories_by_period(saved, req.caller, "daily", NoMonth, now))
                       EXCEPT !.entry = req.entry]
    /\ chat' = NoChat
    /\ UNCHANGED <<now, chat_messages, endpoint, transactions, nextTxId>>

NextRace ==
    \/ Tick
    \/ \E r \in Requests, caller \in Users, entry \in {Banana, Apple},
          timestamp \in LocalTimes(now) : add_calorie_entry_read(r, caller, entry, timestamp)
    \/ \E r \in Requests : add_calorie_entry_save(r)

SpecRace == Init /\ [][NextRace]_vars

---------------------------------------------------------------------------
(* Properties of the entries a chat message writes *)

\* C24: every entry a chat message writes to the expense ledger or to the
\* calorie ledger is owned by the authenticated caller, whatever user_id the
\* body carries and in whatever order the intents are dispatched.
C24_WrittenForCaller ==
    [][/\ \A row \in transactions' \ transactions : row.user_id = chat'.caller
       /\ \A row \in meals' \ meals : row.user_id = chat'.caller]_vars

\* C25: whenever the response of process_chat_message has success=false,
\* handling the message has written no entry to the expense ledger nor to
\* the calorie ledger, so the message can be sent again.
C25_FailureWritesNothing ==
    [][chat'.caller # NoUser /\ ~chat'.success
          => transactions' = transactions /\ meals' = meals]_vars

\* C26: when a handler the router dispatched reports success=false, having
\* written nothing, the response of process_chat_message has success=false,
\* in the single-intent and in the multi-intent branch.
C26_HandlerFailureIsFailure ==
    [][/\ chat'.caller # NoUser
       /\ \E i \in 1..Len(chat'.response) :
              chat'.response[i] \in {Fragment("calories", FALSE), Fragment("budget", FALSE)}
       /\ transactions' = transactions /\ meals' = meals
       => ~chat'.success]_vars

---------------------------------------------------------------------------
(* Properties of the windows of the expense ledger *)

\* C27: whether an expense entry is in the list, and counted in the
\* aggregate, of a user and a window depends on the entry's owner and
\* timestamp and on the window only: it is listed and counted in the ledger
\* exactly when it is listed and counted in a ledger that holds nothing else.
C27_InclusionIsPerEntry ==
    \A user_id \in Users, period \in Periods, month \in {NoMonth, MonthYM(2023, 12)} :
        LET list == get_raw_transactions(transactions, user_id, period, month, NoDate, now)
            aggregate == get_transactions_by_period(transactions, user_id, period, month, now)
            alone(r) == get_raw_transactions({r}, user_id, period, month, NoDate, now)
            counted(r) == get_transactions_by_period({r}, user_id, period, month, now)
        IN  /\ \A r \in transactions : r \in list <=> r \in alone(r)
            /\ aggregate = GroupByCategory({r \in transactions : DOMAIN counted(r) # {}})

---------------------------------------------------------------------------
(* Properties of the totals a logged expense reports *)

\* C28: after a free-text expense log that succeeds, the total_amount of the
\* response is the sum, taken after the write, of the caller's entries of
\* the day the new entries are stamped with, the amounts just logged
\* included.
C28_TotalIncludesLogged ==
    [][/\ chat'.caller # NoUser
       /\ chat'.success
       /\ chat'.expense_info.present
       /\ transactions' # transactions
       => \A new \in transactions' \ transactions :
              chat'.expense_info.total =
                  SumAmounts({r \in transactions' : /\ r.user_id = chat'.caller
                                                    /\ DATE(r.timestamp) = DATE(new.timestamp)})]_vars

---------------------------------------------------------------------------
(* Properties of the history a chat request loads *)

\* C29: the conversation history loaded for a chat request holds messages
\* recorded for the caller only, whatever conversation_id the request
\* carries.
C29_HistoryOfCallerOnly ==
    endpoint.op = "chat" =>
        \A i \in 1..Len(endpoint.conversation_history) :
            chat_messages[endpoint.conversation_history[i]].user_id = endpoint.caller

---------------------------------------------------------------------------
(* The calories of a free-text food log: the weight estimate, the         *)
(* nutrition of that weight, and what handle_logging stores               *)

\* serving_sizes, in the order of the dictionary
serving_sizes ==
    <<<<<<"pizza">>, 120>>, <<<<"banana">>, 120>>, <<<<"apple">>, 180>>,
      <<<<"chicken", " ", "breast">>, 150>>, <<<<"rice">>, 150>>, <<<<"bread">>, 30>>,
      <<<<"pasta">>, 85>>, <<<<"burger">>, 200>>, <<<<"soda">>, 355>>, <<<<"coffee">>, 240>>>>

\* CalorieTool._estimate_weight_in_grams, for the units whose multiplier is
\* 1: those unit_multipliers maps to 1 and those it does not hold
estimate_weight_in_grams(food_item, quantity, unit) ==
    LET food == lower(food_item)
        hits == {i \in 1..Len(serving_sizes) :
                    IsIn(serving_sizes[i][1], food) \/ IsIn(food, serving_sizes[i][1])}
        base_weight == IF hits = {} THEN 100
                       ELSE serving_sizes[CHOOSE i \in hits : \A j \in hits : i <= j][2]
    IN  IF lower(unit) \in {<<"g">>, <<"gram">>, <<"grams">>} THEN quantity
        ELSE base_weight * quantity

\* FALLBACK_NUTRITION_DB: calories and carbs of 100 g
FALLBACK_NUTRITION_DB(food_key) ==
    CASE food_key = <<"pizza">>  -> [known |-> TRUE, calories |-> 300, carbs |-> 36]
      [] food_key = <<"banana">> -> [known |-> TRUE, calories |-> 105, carbs |-> 27]
      [] food_key = <<"rice">>   -> [known |-> TRUE, calories |-> 200, carbs |-> 45]
      [] OTHER                   -> [known |-> FALSE, calories |-> 200, carbs |-> 25]

\* get_nutrition_with_fallback while the nutrition server is not available:
\* the local table, or the basic estimate, for amount_g grams
get_nutrition_with_fallback(food_name, amount_g) ==
    LET per_100 == FALLBACK_NUTRITION_DB(lower(food_name))
    IN  [calories |-> per_100.calories * amount_g, carbs |-> per_100.carbs * amount_g]

\* CalorieTool.get_food_macros: int() of the calories; the other nutrients
\* in whole grams; raises is an exception of the lookup, answered with the
\* estimate of 200 calories per unit of quantity
get_food_macros(food_item, quantity, unit, raises) ==
    LET estimated_grams == estimate_weight_in_grams(food_item, quantity, unit)
        nutrition == get_nutrition_with_fallback(food_item, estimated_grams)
    IN  IF raises
        THEN FoodAction(food_item, quantity, unit, 200 * quantity, 25 * quantity,
                        10 * quantity, 8 * quantity)
        ELSE FoodAction(food_item, quantity, unit, nutrition.calories \div 100,
                        nutrition.carbs \div 100, 0, 0)

\* the foods, quantities and units the completion service finds in the
\* messages
LoggedFoods == {<<"banana">>, <<"rice">>, <<"pizza">>, <<"tofu">>, <<"fried", " ", "rice">>}
LoggedQuantities == {1, 2, 3}
LoggedUnits == {<<"serving">>, <<"piece">>, <<"grams">>, <<"cup">>, <<"slice">>}

\* the calories handle_logging stores for one food named in a message
stored_calories(food_item, quantity, unit, raises) ==
    logged_food_info(get_food_macros(food_item, quantity, unit, raises), NoTime).calories

\* a free-text food log of one food: extract_food_actions with the nutrition
\* of get_food_macros, then handle_logging
log_food_text(caller, food_item, quantity, unit, raises) ==
    /\ nextMealId <= MaxRows
    /\ LET actions == <<get_food_macros(food_item, quantity, unit, raises)>>
           res == calorie_handle_logging(meals, nextMealId, caller, NoTime, actions, now)
       IN  /\ meals' = res.table
           /\ nextMealId' = nextMealId + res.logged
           /\ last' = [Answer("log_food_text", caller, caller, nextMealId, 200, res.success,
                              FALSE, {}, res.total)
                       EXCEPT !.entry = <<food_item, quantity, unit, raises>>]
    /\ chat' = NoChat
    /\ UNCHANGED <<now, chat_messages, endpoint, pending, transactions, nextTxId>>

NextScale ==
    \E caller \in Users, food_item \in LoggedFoods, quantity \in LoggedQuantities,
       unit \in LoggedUnits, raises \in BOOLEAN :
        log_food_text(caller, food_item, quantity, unit, raises)

SpecScale == Init /\ [][NextScale]_vars

\* C30: the calories a free-text food log stores for quantity q of a food
\* and a unit are q times the calories it stores for quantity 1 of the same
\* food and unit, up to the truncation to an integer (less than 1 for each
\* of the q units).
C30_CaloriesLinearInQuantity ==
    last.op = "log_food_text" =>
        \E row \in meals :
            /\ row.id = last.id
            /\ LET q == last.entry[2]
                   one == stored_calories(last.entry[1], 1, last.entry[3], last.entry[4])
               IN  Abs(row.calories - q * one) <= q

====
